---- MODULE Spec2Model ----
(***************************************************************************)
(* Model of the build planner of overthink (ov): the popularity-weighted   *)
(* global layer order, the absolute layer sequences and the synthesis of   *)
(* auto-intermediate images (src/ov/intermediates.go).                     *)
(*                                                                         *)
(* Names are strings.  Go compares strings bytewise; the model compares    *)
(* them through their position in NameOrder, which lists every name that   *)
(* is ever compared in ascending bytewise order.                           *)
(***************************************************************************)
EXTENDS Integers, Sequences, FiniteSets, TLC

\* ---------------------------------------------------------------- bounds
MaxLayers == 3
MaxImages == 3
MaxExt == 2
MaxOwn == 1
FleetGroupSize == 2

\* ------------------------------------------------------------ name universe
LayerNameSeq == <<"a", "b", "c", "d", "e">>
ImageNameSeq == <<"m", "b", "n", "b-2", "p", "q">>
ExtRefSeq == <<"ext:1", "ext:2", "ext:3", "ext:4">>

NameOrder ==
  <<"a", "b", "b-2", "c", "d", "e", "ext:1", "ext:2", "ext:3", "ext:4",
    "m", "n", "p", "q">>

Min2(x, y) == IF x < y THEN x ELSE y

LayerSet == {LayerNameSeq[i] : i \in 1..Min2(MaxLayers, Len(LayerNameSeq))}
ImageNameSet(n) == {ImageNameSeq[i] : i \in 1..n}
ExtRefs == {ExtRefSeq[i] : i \in 1..Min2(MaxExt, Len(ExtRefSeq))}

Rank(n) == CHOOSE i \in 1..Len(NameOrder) : NameOrder[i] = n

\* Go's s < t on strings.
StrLess(s, t) == Rank(s) < Rank(t)

\* ------------------------------------------------------------ sequences
SeqToSet(s) == {s[i] : i \in 1..Len(s)}

IndexOf(s, x) == CHOOSE i \in 1..Len(s) : s[i] = x

FilterSeq(s, keep) == SelectSeq(s, LAMBDA x : x \in keep)

\* All orders in which a map iteration can deliver the elements of S.
Perms(S) ==
  {p \in [1..Cardinality(S) -> S] : \A i, j \in 1..Cardinality(S) : p[i] = p[j] => i = j}

MinName(S) == CHOOSE x \in S : \A y \in S : ~StrLess(y, x)

RECURSIVE SortedSeq(_)
SortedSeq(S) ==
  IF S = {} THEN <<>> ELSE LET x == MinName(S) IN <<x>> \o SortedSeq(S \ {x})

\* sortStrings sorts a list of names ascending.
sortStrings(s) == SortedSeq(SeqToSet(s))

RECURSIVE AppendUnseen(_, _)
AppendUnseen(acc, s) ==
  IF s = <<>> THEN acc
  ELSE AppendUnseen(IF Head(s) \in SeqToSet(acc) THEN acc ELSE Append(acc, Head(s)),
                    Tail(s))

\* -------------------------------------------------------------- layer graph
RECURSIVE DepClosure(_, _)
DepClosure(S, lys) ==
  LET T == S \cup UNION {lys[l].Depends : l \in S}
  IN IF T = S THEN S ELSE DepClosure(T, lys)

RECURSIVE TopoLex(_, _, _)
TopoLex(remaining, done, lys) ==
  LET ready == {l \in remaining : lys[l].Depends \cap remaining = {}}
  IN IF ready = {} THEN done
     ELSE LET n == MinName(ready)
          IN TopoLex(remaining \ {n}, Append(done, n), lys)

\* resolve_layer_order(selection, excluded_parent_layers): the selection and
\* its transitive dependencies, minus the excluded layers, in topological
\* order with ascending names among the candidates.
ResolveLayerOrder(sel, lys, parentLayers) ==
  TopoLex(DepClosure(SeqToSet(sel), lys) \ parentLayers, <<>>, lys)

\* layers_provided_by_image(name): own layers with their dependencies plus
\* the provided set of the base, followed over internal bases.
RECURSIVE ProvidedWalk(_, _, _, _)
ProvidedWalk(name, imgs, lys, visited) ==
  IF name \notin DOMAIN imgs \/ name \in visited THEN {}
  ELSE LET own == DepClosure(SeqToSet(imgs[name].Layers), lys)
       IN IF imgs[name].IsExternalBase THEN own
          ELSE own \cup ProvidedWalk(imgs[name].Base, imgs, lys, visited \cup {name})

LayersProvidedByImage(name, imgs, lys) == ProvidedWalk(name, imgs, lys, {})

\* ------------------------------------------------- collectAllImageLayers
RECURSIVE collectWalk(_, _, _, _)
collectWalk(name, imgs, lys, acc) ==
  IF name \notin DOMAIN imgs THEN acc
  ELSE LET inherited == IF ~imgs[name].IsExternalBase
                        THEN collectWalk(imgs[name].Base, imgs, lys, acc)
                        ELSE acc
       IN AppendUnseen(inherited, ResolveLayerOrder(imgs[name].Layers, lys, {}))

\* A collection that does not follow the base chain.
collectOwnLayers(imageName, imgs, lys) ==
  IF imageName \notin DOMAIN imgs THEN <<>>
  ELSE ResolveLayerOrder(imgs[imageName].Layers, lys, {})

collectAllImageLayers(imageName, imgs, lys) == collectWalk(imageName, imgs, lys, <<>>)

\* --------------------------------------------------------- GlobalLayerOrder
\* The layer list one image adds to the popularity count (lines 28-44).
ImageLayerList(name, imgs, lys) ==
  AppendUnseen(collectAllImageLayers(name, imgs, lys),
               ResolveLayerOrder(imgs[name].Layers, lys, {}))

\* popularity: layer -> number of images whose layer list holds it; only
\* layers counted at least once are keys.
PopularityOf(imgs, lys) ==
  LET cnt(l) == Cardinality({n \in DOMAIN imgs : l \in SeqToSet(ImageLayerList(n, imgs, lys))})
      used == UNION {SeqToSet(ImageLayerList(n, imgs, lys)) : n \in DOMAIN imgs}
  IN [l \in used |-> cnt(l)]

\* A graph that forgets the dependency edges.
GraphOfNoDeps(pop, lys) == [l \in (DOMAIN pop) \cap (DOMAIN lys) |-> {}]

\* graph: used layer -> its dependencies that are in use (lines 52-65).
GraphOf(pop, lys) ==
  [l \in (DOMAIN pop) \cap (DOMAIN lys) |-> lys[l].Depends \cap DOMAIN pop]

Swap(s, i, j) == [s EXCEPT ![i] = s[j], ![j] = s[i]]

RECURSIVE sortInner(_, _, _, _)
sortInner(s, i, j, pop) ==
  IF j > Len(s) THEN s
  ELSE LET pi == pop[s[i]]
           pj == pop[s[j]]
       IN sortInner(IF pi < pj \/ (pi = pj /\ StrLess(s[j], s[i])) THEN Swap(s, i, j) ELSE s,
                    i, j + 1, pop)

RECURSIVE sortOuter(_, _, _)
sortOuter(s, i, pop) ==
  IF i >= Len(s) THEN s ELSE sortOuter(sortInner(s, i, i + 1, pop), i + 1, pop)

\* A sort that only looks at the names.
sortByNameOnly(s, pop) == sortStrings(s)

\* sortByPopularity: descending popularity, then ascending name.
sortByPopularity(s, pop) == sortOuter(s, 1, pop)

\* One iteration of the loop of topoSortByPopularity (lines 95-106); newly
\* is the order in which the dependents that became free were appended.
KahnDecrement(deg, g, node) ==
  [d \in DOMAIN deg |-> IF node \in g[d] THEN deg[d] - 1 ELSE deg[d]]

KahnFreed(deg, g, node) == {d \in DOMAIN deg : node \in g[d] /\ deg[d] - 1 = 0}

RECURSIVE topoLoop(_, _, _, _, _)
topoLoop(g, pop, deg, q, res) ==
  IF q = <<>> THEN res
  ELSE LET node == Head(q)
           freed == SortedSeq(KahnFreed(deg, g, node))
       IN topoLoop(g, pop, KahnDecrement(deg, g, node),
                   sortByPopularity(Tail(q) \o freed, pop), Append(res, node))

\* topoSortByPopularity as a function: <<ok, order>>.
topoSortByPopularity(g, pop) ==
  LET deg == [n \in DOMAIN g |-> Cardinality(g[n])]
      q0 == sortByPopularity(SortedSeq({n \in DOMAIN g : deg[n] = 0}), pop)
      res == topoLoop(g, pop, deg, q0, <<>>)
  IN [ok |-> Len(res) = Cardinality(DOMAIN g), order |-> res]

GlobalLayerOrder(imgs, lys) ==
  LET pop == PopularityOf(imgs, lys) IN topoSortByPopularity(GraphOf(pop, lys), pop)

\* ---------------------------------------------------- AbsoluteLayerSequence
\* The image's layers in the order they were collected.
AbsoluteLayerSequenceAsCollected(imageName, imgs, lys, order) ==
  collectAllImageLayers(imageName, imgs, lys)

AbsoluteLayerSequence(imageName, imgs, lys, order) ==
  FilterSeq(order, SeqToSet(collectAllImageLayers(imageName, imgs, lys)))

\* ------------------------------------------------------ resolveExternalBase
RECURSIVE resolveExternalBase(_, _)
resolveExternalBase(imageName, imgs) ==
  IF imageName \notin DOMAIN imgs THEN imageName
  ELSE IF imgs[imageName].IsExternalBase THEN imgs[imageName].Base
  ELSE resolveExternalBase(imgs[imageName].Base, imgs)

\* --------------------------------------------------------------- the trie
\* A trie node is addressed by the layer path that leads to it from the root.
newTrieNode(layer) == [layer |-> layer, children |-> {}, images |-> <<>>]

\* Lines 229-239: walk the sequence from the root, creating the missing
\* children, and record the image at the node where the sequence ends.
TrieInsert(trie, seq, imgName) ==
  LET prefixes == {SubSeq(seq, 1, k) : k \in 0..Len(seq)}
      old(p) == IF p \in DOMAIN trie THEN trie[p] ELSE newTrieNode(p[Len(p)])
  IN [p \in (DOMAIN trie) \cup prefixes |->
        LET n == old(p)
            c == IF p \in prefixes /\ Len(p) < Len(seq)
                 THEN [n EXCEPT !.children = @ \cup {seq[Len(p) + 1]}]
                 ELSE n
        IN IF p = seq THEN [c EXCEPT !.images = Append(@, imgName)] ELSE c]

RECURSIVE BuildTrie(_, _, _, _, _)
BuildTrie(trie, imageNames, imgs, lys, order) ==
  IF imageNames = <<>> THEN trie
  ELSE BuildTrie(TrieInsert(trie,
                            AbsoluteLayerSequence(Head(imageNames), imgs, lys, order),
                            Head(imageNames)),
                 Tail(imageNames), imgs, lys, order)

\* sortedKeys of a node's children.
sortedKeys(children) == SortedSeq(children)

\* ------------------------------------------------------- walkTrie's helpers
RECURSIVE pickLoop(_, _, _, _, _)
pickLoop(baseName, name, suffix, res, origImages) ==
  IF name \in DOMAIN origImages \/ name \in DOMAIN res
  THEN pickLoop(baseName, baseName \o "-" \o ToString(suffix), suffix + 1, res, origImages)
  ELSE name

\* The name search without the collision check.
pickFirstName(node, pathLayers, res, origImages) ==
  IF Len(node.images) = 1 THEN node.images[1] ELSE pathLayers[Len(pathLayers)]

\* A name search that looks at the input images only.
pickIgnoringResult(node, pathLayers, res, origImages) ==
  IF Len(node.images) = 1 THEN node.images[1]
  ELSE pickLoop(pathLayers[Len(pathLayers)], pathLayers[Len(pathLayers)], 2, <<>>, origImages)

pickIntermediateName(node, pathLayers, res, origImages) ==
  IF Len(node.images) = 1 THEN node.images[1]
  ELSE pickLoop(pathLayers[Len(pathLayers)], pathLayers[Len(pathLayers)], 2, res, origImages)

\* A test that finds no image reusable.
isNeverReusable(imgName, origImages) == FALSE

isExistingImageReusable(imgName, origImages) == imgName \in DOMAIN origImages

RECURSIVE addTransitiveDeps(_, _, _, _)
RECURSIVE addDepsOf(_, _, _, _)
addDepsOf(deps, lys, needed, excluded) ==
  IF deps = <<>> THEN needed
  ELSE LET dep == Head(deps)
       IN IF dep \in excluded \/ dep \in needed
          THEN addDepsOf(Tail(deps), lys, needed, excluded)
          ELSE addDepsOf(Tail(deps), lys,
                         addTransitiveDeps(dep, lys, needed \cup {dep}, excluded),
                         excluded)

addTransitiveDeps(layerName, lys, needed, excluded) ==
  IF layerName \notin DOMAIN lys THEN needed
  ELSE addDepsOf(SortedSeq(lys[layerName].Depends), lys, needed, excluded)

RECURSIVE neededOf(_, _, _, _)
neededOf(own, lys, needed, excluded) ==
  IF own = <<>> THEN needed
  ELSE neededOf(Tail(own), lys,
                addTransitiveDeps(Head(own), lys, needed \cup {Head(own)}, excluded),
                excluded)

computeOwnLayers(parentName, pathLayers, res, lys, order) ==
  LET parentProvided == IF parentName \in DOMAIN res
                        THEN LayersProvidedByImage(parentName, res, lys)
                        ELSE {}
      own == SelectSeq(pathLayers, LAMBDA l : l \notin parentProvided)
      needed == neededOf(own, lys, {}, parentProvided)
      ordered == SelectSeq(order, LAMBDA l : l \in needed /\ l \notin parentProvided)
  IN IF ordered = <<>> THEN own ELSE ordered

FullTagOf(registry, name, tag) ==
  IF registry # "" THEN registry \o "/" \o name \o ":" \o tag ELSE name \o ":" \o tag

createIntermediate(name, parentName, pathLayers, res, c, tg, lys, order) ==
  LET img == [Name |-> name,
              Base |-> parentName,
              IsExternalBase |-> parentName \notin DOMAIN res,
              Layers |-> computeOwnLayers(parentName, pathLayers, res, lys, order),
              Tag |-> tg,
              Registry |-> c.Registry,
              Pkg |-> IF c.Pkg = "" THEN "rpm" ELSE c.Pkg,
              FullTag |-> FullTagOf(c.Registry, name, tg),
              Bootc |-> FALSE,
              Auto |-> TRUE]
  IN [n \in (DOMAIN res) \cup {name} |-> IF n = name THEN img ELSE res[n]]

\* An update that sets the flag and leaves Base as it is.
updateImageFlagOnly(imgName, parentName, res) ==
  IF imgName \notin DOMAIN res THEN res
  ELSE [res EXCEPT ![imgName].IsExternalBase = parentName \notin DOMAIN res]

updateImageBase(imgName, parentName, res) ==
  IF imgName \notin DOMAIN res THEN res
  ELSE [res EXCEPT ![imgName].Base = parentName,
                   ![imgName].IsExternalBase = parentName \notin DOMAIN res]

RECURSIVE updateAll(_, _, _)
updateAll(imgNames, parentName, res) ==
  IF imgNames = <<>> THEN res
  ELSE updateAll(Tail(imgNames), parentName, updateImageBase(Head(imgNames), parentName, res))

\* assignLayersForIntermediate has an empty body.
assignLayersForIntermediate(imgName, parentName, pathLayers, res) == res

\* Lines 280-285: follow the chain while the node has one child and no image.
RECURSIVE collapse(_, _)
collapse(trie, cur) ==
  IF Cardinality(trie[cur].children) = 1 /\ Len(trie[cur].images) = 0
  THEN collapse(trie, Append(cur, CHOOSE l \in trie[cur].children : TRUE))
  ELSE cur

\* ------------------------------------------------------------------ walkTrie
\* st = [result, log]; ctx = [origImages, layers, cfg, tag, order, group].
\* log records, for every node at which a chain stopped, the branch taken.
Event(ctx, current, kind, parentName, name, node) ==
  [group |-> ctx.group, path |-> current, kind |-> kind, parent |-> parentName,
   name |-> name, images |-> node.images]

\* Lines 291-315: the node is a branch point.
branchStep(node, current, pathLayers, parentName, st, ctx) ==
  LET picked == pickIntermediateName(node, pathLayers, st.result, ctx.origImages)
      make == createIntermediate(picked, parentName, pathLayers, st.result,
                                 ctx.cfg, ctx.tag, ctx.layers, ctx.order)
  IN IF Len(node.images) = 1 /\ ~isExistingImageReusable(node.images[1], ctx.origImages)
     THEN [result |-> updateImageBase(node.images[1], picked, make),
           log |-> Append(st.log, Event(ctx, current, "fresh", parentName, picked, node)),
           name |-> picked]
     ELSE IF Len(node.images) = 1
     THEN [result |-> assignLayersForIntermediate(node.images[1], parentName, pathLayers,
                        updateImageBase(node.images[1], parentName, st.result)),
           log |-> Append(st.log, Event(ctx, current, "reuse", parentName, node.images[1], node)),
           name |-> node.images[1]]
     ELSE IF Len(node.images) > 1
     THEN [result |-> updateAll(node.images, picked, make),
           log |-> Append(st.log, Event(ctx, current, "multi", parentName, picked, node)),
           name |-> picked]
     ELSE [result |-> make,
           log |-> Append(st.log, Event(ctx, current, "pure", parentName, picked, node)),
           name |-> picked]

RECURSIVE walkTrie(_, _, _, _, _)
RECURSIVE walkChildren(_, _, _, _, _, _)

walkChildren(trie, path, keys, parentName, st, ctx) ==
  IF keys = <<>> THEN st
  ELSE
    LET current == collapse(trie, Append(path, Head(keys)))
        pathLayers == SubSeq(current, Len(path) + 1, Len(current))
        node == trie[current]
        isBranch == Cardinality(node.children) >= 2
                    \/ (Cardinality(node.children) >= 1 /\ Len(node.images) > 0)
        isLeaf == Cardinality(node.children) = 0
        after ==
          IF isBranch
          THEN LET b == branchStep(node, current, pathLayers, parentName, st, ctx)
               IN walkTrie(trie, current, b.name, [result |-> b.result, log |-> b.log], ctx)
          ELSE IF isLeaf
          THEN [result |-> updateAll(node.images, parentName, st.result),
                log |-> Append(st.log, Event(ctx, current, "leaf", parentName, parentName, node))]
          ELSE st
    IN walkChildren(trie, path, Tail(keys), parentName, after, ctx)

\* A walk that takes every child twice.
walkTrieTwice(trie, path, parentName, st, ctx) ==
  walkChildren(trie, path, sortedKeys(trie[path].children) \o sortedKeys(trie[path].children),
               parentName, st, ctx)

walkTrie(trie, path, parentName, st, ctx) ==
  walkChildren(trie, path, sortedKeys(trie[path].children), parentName, st, ctx)

\* ------------------------------------------------------ ComputeIntermediates
\* Lines 197-204: base group key -> names of the images of the group.
BaseGroupsOf(imgs) ==
  LET keys == {resolveExternalBase(n, imgs) : n \in DOMAIN imgs}
  IN [k \in keys |-> {n \in DOMAIN imgs : resolveExternalBase(n, imgs) = k}]

\* Lines 243-249: the first image of the sorted group with no own layers.
RECURSIVE RootImageName(_, _)
RootImageName(imageNames, imgs) ==
  IF imageNames = <<>> THEN ""
  ELSE IF Len(imgs[Head(imageNames)].Layers) = 0 THEN Head(imageNames)
  ELSE RootImageName(Tail(imageNames), imgs)

\* A starting parent that is always the external base.
StartParentExternal(imageNames, imgs) == resolveExternalBase(imageNames[1], imgs)

\* Lines 252-257.
StartParent(imageNames, imgs) ==
  IF RootImageName(imageNames, imgs) # "" THEN RootImageName(imageNames, imgs)
  ELSE resolveExternalBase(imageNames[1], imgs)

GroupTrie(imageNames, imgs, lys, order) ==
  BuildTrie((<<>> :> newTrieNode("")), imageNames, imgs, lys, order)

\* The body of the loop over the base groups (lines 219-262) for one group.
ProcessGroupOf(key, members, st, imgs, lys, c, tg, order) ==
  LET imageNames == sortStrings(SortedSeq(members))
  IN IF Len(imageNames) <= 1 THEN st
     ELSE walkTrie(GroupTrie(imageNames, imgs, lys, order), <<>>,
                   StartParent(imageNames, imgs), st,
                   [origImages |-> imgs, layers |-> lys, cfg |-> c, tag |-> tg,
                    order |-> order, group |-> key])

\* ComputeIntermediates with the base groups taken in the order keys.
RECURSIVE ProcessGroupsIn(_, _, _, _, _, _, _, _)
ProcessGroupsIn(keys, groups, st, imgs, lys, c, tg, order) ==
  IF keys = <<>> THEN st
  ELSE ProcessGroupsIn(Tail(keys), groups,
                       ProcessGroupOf(Head(keys), groups[Head(keys)], st, imgs, lys, c, tg, order),
                       imgs, lys, c, tg, order)

ComputeIntermediatesIn(keys, imgs, lys, c, tg) ==
  ProcessGroupsIn(keys, BaseGroupsOf(imgs), [result |-> imgs, log |-> <<>>],
                  imgs, lys, c, tg, GlobalLayerOrder(imgs, lys).order)

\* ------------------------------------------------------------------ inputs
Acyclic(lys) == \A l \in DOMAIN lys : l \notin DepClosure(lys[l].Depends, lys)

\* Layer tables: every layer of LayerSet with an acyclic dependency relation.
LayerTables == {lys \in [LayerSet -> [Depends : SUBSET LayerSet]] : Acyclic(lys)}

\* Own-layer lists of at most MaxOwn layers.
OwnLayerLists == {SortedSeq(S) : S \in {T \in SUBSET LayerSet : Cardinality(T) <= MaxOwn}}

RECURSIVE BaseChainEnds(_, _, _)
BaseChainEnds(n, base, fuel) ==
  IF n \notin DOMAIN base THEN TRUE
  ELSE IF fuel = 0 THEN FALSE
  ELSE BaseChainEnds(base[n], base, fuel - 1)

Tag == "v1"
Defaults == [Registry |-> "r", Pkg |-> ""]

\* The resolved image of the image resolver: the base is external exactly
\* when it names no configured image.
ResolvedImageOf(name, base, own, names) ==
  [Name |-> name, Base |-> base, IsExternalBase |-> base \notin names, Layers |-> own,
   Tag |-> Tag, Registry |-> "r", Pkg |-> "rpm", FullTag |-> FullTagOf("r", name, Tag),
   Bootc |-> FALSE, Auto |-> FALSE]

\* External references are interchangeable for the planner, so a table uses
\* them in the order of ExtRefSeq: the k-th reference is the base of an image
\* only if an image earlier in ImageNameSeq is based on the one before it.
ExtInOrder(n, b) ==
  \A i \in 1..n : \A k \in 2..Len(ExtRefSeq) :
     b[ImageNameSeq[i]] = ExtRefSeq[k]
       => \E j \in 1..(i - 1) : b[ImageNameSeq[j]] = ExtRefSeq[k - 1]

\* Every table of n images over the external references and each other
\* whose base graph is acyclic.
ImageTables(n) ==
  LET names == ImageNameSet(n)
      bases == {b \in [names -> ExtRefs \cup names] :
                  /\ \A x \in names : BaseChainEnds(x, b, n)
                  /\ ExtInOrder(n, b)}
  IN {[x \in names |-> ResolvedImageOf(x, b[x], own[x], names)] :
        b \in bases, own \in [names -> OwnLayerLists]}

\* A fleet of two base groups of FleetGroupSize images each, every image
\* directly on the external reference of its group.
FleetTables ==
  LET n == 2 * FleetGroupSize
      names == ImageNameSet(n)
      b == [x \in names |-> IF \E i \in 1..FleetGroupSize : ImageNameSeq[i] = x
                             THEN ExtRefSeq[1] ELSE ExtRefSeq[2]]
  IN {[x \in names |-> ResolvedImageOf(x, b[x], own[x], names)] :
        own \in [names -> OwnLayerLists]}

\* An external reference is any base that names no configured image; this
\* one is spelled like the layer LayerNameSeq[1].  Two images sit on it.
BareRef == LayerNameSeq[1]

BareRefTables ==
  LET names == ImageNameSet(2)
  IN {[x \in names |-> ResolvedImageOf(x, BareRef, own[x], names)] :
        own \in [names -> OwnLayerLists]}

\* ------------------------------------------------------------ merge planner
\* Bounds of the merge inputs: layers of an image, size of a layer, cap.
MaxStack == 3
MaxSize == 3
MaxCap == 4

\* A step of the plan; Layers holds 0-based layer indices.
MergeStep(ls) == [Keep |-> Len(ls) = 1, Layers |-> ls]

EmptyAcc == [layers |-> <<>>, sum |-> 0]

\* A scan that takes every layer into the open group, whatever its size.
planScanNoCap(st, i, s, maxBytes) ==
  [steps |-> st.steps,
   acc |-> [layers |-> Append(st.acc.layers, i), sum |-> st.acc.sum + s]]

\* One layer of the scan: st = [steps, acc], i the 0-based index, s its size.
planScan(st, i, s, maxBytes) ==
  IF st.acc.layers = <<>>
  THEN [steps |-> st.steps, acc |-> [layers |-> <<i>>, sum |-> s]]
  ELSE IF st.acc.sum + s <= maxBytes
  THEN [steps |-> st.steps,
        acc |-> [layers |-> Append(st.acc.layers, i), sum |-> st.acc.sum + s]]
  ELSE [steps |-> Append(st.steps, MergeStep(st.acc.layers)),
        acc |-> [layers |-> <<i>>, sum |-> s]]

\* A scan that never closes a group.
planFlushNever(st) == [steps |-> st.steps, acc |-> EmptyAcc]

\* The flush at the end of the scan.
planFlush(st) ==
  IF st.acc.layers = <<>> THEN [steps |-> st.steps, acc |-> EmptyAcc]
  ELSE [steps |-> Append(st.steps, MergeStep(st.acc.layers)), acc |-> EmptyAcc]

RECURSIVE planLoop(_, _, _, _)
planLoop(st, i, szs, maxBytes) ==
  IF i >= Len(szs) THEN planFlush(st)
  ELSE planLoop(planScan(st, i, szs[i + 1], maxBytes), i + 1, szs, maxBytes)

planMerge(szs, maxBytes) ==
  planLoop([steps |-> <<>>, acc |-> EmptyAcc], 0, szs, maxBytes).steps

\* ----------------------------------------------------------- merge executor
\* A tar entry is a record [Name, Content]; a layer is a list of entries.
TarEntry(name, content) == [Name |-> name, Content |-> content]

\* Copies the entries of one layer, in order, to the end of the stream.
RECURSIVE copyEntries(_, _)
copyEntries(out, entries) ==
  IF entries = <<>> THEN out
  ELSE copyEntries(Append(out, Head(entries)), Tail(entries))

\* The whiteout entries of the inputs (basename prefixed .wh.).
WhiteoutNames == {"usr/bin/.wh.app"}

\* A copy that leaves out the whiteout entries.
RECURSIVE mergeLayersNoWhiteout(_)
mergeLayersNoWhiteout(ls) ==
  IF ls = <<>> THEN <<>>
  ELSE SelectSeq(Head(ls), LAMBDA e : e.Name \notin WhiteoutNames)
       \o mergeLayersNoWhiteout(Tail(ls))

\* mergeLayers: the tar stream of the layers ls, earlier layers first.
RECURSIVE mergeLayers(_)
mergeLayers(ls) ==
  IF ls = <<>> THEN <<>>
  ELSE copyEntries(<<>>, Head(ls)) \o mergeLayers(Tail(ls))

\* A history record.
HistoryRecord(createdBy, emptyLayer) == [CreatedBy |-> createdBy, EmptyLayer |-> emptyLayer]

JoinSep == "\n"

RECURSIVE JoinCreatedBy(_)
JoinCreatedBy(recs) ==
  IF recs = <<>> THEN ""
  ELSE IF Len(recs) = 1 THEN recs[1].CreatedBy
  ELSE recs[1].CreatedBy \o JoinSep \o JoinCreatedBy(Tail(recs))

\* The non-empty records of a history, in order: record k belongs to layer k-1.
LayerRecords(hist) == SelectSeq(hist, LAMBDA h : ~h.EmptyLayer)

\* The step of the plan that holds layer li.
StepOfLayer(plan, li) ==
  CHOOSE k \in 1..Len(plan) : \E j \in 1..Len(plan[k].Layers) : plan[k].Layers[j] = li

\* The history record of a step: the original record of a kept layer, the
\* joined record of merged layers.
StepRecord(step, hist) ==
  LET recs == [j \in 1..Len(step.Layers) |-> LayerRecords(hist)[step.Layers[j] + 1]]
  IN IF step.Keep THEN recs[1]
     ELSE HistoryRecord(JoinCreatedBy(recs), FALSE)

\* The layer of a step: the original layer of a keep step, the merged tar
\* stream of a merge step.
StepLayer(step, tars) ==
  IF step.Keep THEN tars[step.Layers[1] + 1]
  ELSE mergeLayers([j \in 1..Len(step.Layers) |-> tars[step.Layers[j] + 1]])

\* A rebuild that puts a step's record where its last layer's record was.
RECURSIVE rebuildAtLast(_, _, _, _)
rebuildAtLast(hist, pos, li, plan) ==
  IF pos > Len(hist) THEN <<>>
  ELSE IF hist[pos].EmptyLayer
  THEN <<hist[pos]>> \o rebuildAtLast(hist, pos + 1, li, plan)
  ELSE LET step == plan[StepOfLayer(plan, li)]
       IN (IF step.Layers[Len(step.Layers)] = li THEN <<StepRecord(step, hist)>> ELSE <<>>)
          \o rebuildAtLast(hist, pos + 1, li + 1, plan)

\* The rebuilt history: empty records stay, the record of a step stands
\* where the record of its first layer stood.
RECURSIVE rebuildHistory(_, _, _, _)
rebuildHistory(hist, pos, li, plan) ==
  IF pos > Len(hist) THEN <<>>
  ELSE IF hist[pos].EmptyLayer
  THEN <<hist[pos]>> \o rebuildHistory(hist, pos + 1, li, plan)
  ELSE LET step == plan[StepOfLayer(plan, li)]
       IN (IF step.Layers[1] = li THEN <<StepRecord(step, hist)>> ELSE <<>>)
          \o rebuildHistory(hist, pos + 1, li + 1, plan)

\* An executor that keeps the original history.
executeMergeSameHistory(hist, tars, plan) ==
  [Layers |-> [k \in 1..Len(plan) |-> StepLayer(plan[k], tars)],
   History |-> hist]

\* executeMerge: the image after the plan, as its layers and its history.
executeMerge(hist, tars, plan) ==
  [Layers |-> [k \in 1..Len(plan) |-> StepLayer(plan[k], tars)],
   History |-> rebuildHistory(hist, 1, 0, plan)]

\* The tar contents a layer of the inputs can have: files, a whiteout
\* (empty content, basename prefixed .wh.) and a path that both lists hold.
TarPool ==
  << <<TarEntry("usr/bin/app", "binary"), TarEntry("b.txt", "world")>>,
     <<TarEntry("usr/bin/.wh.app", ""), TarEntry("b.txt", "overwritten")>> >>

\* The history of an image of n layers with an empty record in the slots
\* of gaps: slot k stands before layer k, slot n after the last layer.
RECURSIVE HistoryOf(_, _, _)
HistoryOf(n, gaps, k) ==
  (IF k \in gaps THEN <<HistoryRecord("ENV" \o ToString(k), TRUE)>> ELSE <<>>)
  \o (IF k < n THEN <<HistoryRecord("RUN" \o ToString(k), FALSE)>> \o HistoryOf(n, gaps, k + 1)
      ELSE <<>>)

\* ------------------------------------------------------------------- state
VARIABLES images, layers, pc, popularity, graph, inDegree, queue, globalOrder,
          baseGroups, pending, result, walkLog

\* The merge pass: its inputs, the position of the scan, the plan under
\* construction and the merged image.
VARIABLES sizes, maxBytes, history, tarLayers, mpc, scan, plan, merged

\* EnsureImage and TransferImage: the runtime, the image reference, the
\* engines' local stores, the function called, the position in the code,
\* the probes made, the process events, the two processes, the arguments
\* of the transfer and the returned error.
VARIABLES rt, imageRef, store, entry, tpc, probes, events, loadProc, saveProc, xfer, ret

transferVars == <<rt, imageRef, store, entry, tpc, probes, events, loadProc, saveProc, xfer, ret>>

\* The build order: the recipe kinds of the layers, the declared builder,
\* the tags the configuration writes per image, the builder-needs predicate
\* per image, the image order and the files Generate has written.
VARIABLES recipes, builder, configTags, needs, imageOrder, emitted, files, bake, targets, opc

orderVars == <<recipes, builder, configTags, needs, imageOrder, emitted, files, bake,
               targets, opc>>

plannerVars == <<images, layers, pc, popularity, graph, inDegree, queue, globalOrder,
                 baseGroups, pending, result, walkLog>>

mergeVars == <<sizes, maxBytes, history, tarLayers, mpc, scan, plan, merged>>

vars == <<plannerVars, mergeVars, transferVars, orderVars>>

\* The planner and the merge pass before they are called.
PlannerIdle ==
  /\ images = <<>> /\ layers = <<>> /\ pc = "idle"
  /\ popularity = <<>> /\ graph = <<>> /\ inDegree = <<>> /\ queue = <<>>
  /\ globalOrder = <<>> /\ baseGroups = <<>> /\ pending = {}
  /\ result = <<>> /\ walkLog = <<>>

MergeIdle ==
  /\ sizes = <<>> /\ maxBytes = 0 /\ history = <<>> /\ tarLayers = <<>>
  /\ mpc = "idle" /\ scan = 0
  /\ plan = [steps |-> <<>>, acc |-> EmptyAcc]
  /\ merged = <<>>

NoError == [kind |-> "", names |-> <<>>]

OrderIdle ==
  /\ recipes = <<>> /\ builder = "" /\ configTags = <<>> /\ needs = <<>>
  /\ imageOrder = <<>>
  /\ emitted = <<>> /\ files = <<>> /\ bake = <<>> /\ targets = <<>> /\ opc = "idle"

TransferIdle ==
  /\ rt = <<>> /\ imageRef = "" /\ store = <<>> /\ entry = "" /\ tpc = "idle"
  /\ probes = <<>> /\ events = <<>> /\ loadProc = "none" /\ saveProc = "none"
  /\ xfer = <<>> /\ ret = NoError

Init ==
  /\ layers \in LayerTables
  /\ \/ \E n \in 1..MaxImages : images \in ImageTables(n)
     \/ images \in FleetTables
     \/ images \in BareRefTables
  /\ pc = "start"
  /\ popularity = <<>>
  /\ graph = <<>>
  /\ inDegree = <<>>
  /\ queue = <<>>
  /\ globalOrder = <<>>
  /\ baseGroups = <<>>
  /\ pending = {}
  /\ result = <<>>
  /\ walkLog = <<>>
  /\ MergeIdle
  /\ TransferIdle
  /\ OrderIdle

\* ComputeIntermediates lines 197-204, GlobalLayerOrder lines 26-65 and
\* topoSortByPopularity lines 74-91.  The zero-in-degree nodes reach the
\* queue in map iteration order and are sorted at once.
Begin ==
  /\ pc = "start"
  /\ baseGroups' = BaseGroupsOf(images)
  /\ popularity' = PopularityOf(images, layers)
  /\ graph' = GraphOf(popularity', layers)
  /\ inDegree' = [n \in DOMAIN graph' |-> Cardinality(graph'[n])]
  /\ \E q \in Perms({n \in DOMAIN graph' : Cardinality(graph'[n]) = 0}) :
       queue' = sortByPopularity(q, popularity')
  /\ pc' = "kahn"
  /\ UNCHANGED <<images, layers, globalOrder, pending, result, walkLog>>
  /\ UNCHANGED <<mergeVars, transferVars, orderVars>>

\* topoSortByPopularity lines 94-107: one iteration of the loop.
KahnStep ==
  /\ pc = "kahn"
  /\ queue # <<>>
  /\ LET node == Head(queue)
     IN /\ globalOrder' = Append(globalOrder, node)
        /\ inDegree' = KahnDecrement(inDegree, graph, node)
        /\ \E freed \in Perms(KahnFreed(inDegree, graph, node)) :
             queue' = sortByPopularity(Tail(queue) \o freed, popularity)
  /\ UNCHANGED <<images, layers, pc, popularity, graph, baseGroups, pending, result, walkLog>>
  /\ UNCHANGED <<mergeVars, transferVars, orderVars>>

\* topoSortByPopularity lines 109-112 and ComputeIntermediates lines 206-216.
KahnFinish ==
  /\ pc = "kahn"
  /\ queue = <<>>
  /\ IF Len(globalOrder) # Cardinality(DOMAIN graph)
     THEN /\ pc' = "error"
          /\ UNCHANGED <<result, pending>>
     ELSE /\ pc' = "groups"
          /\ result' = images
          /\ pending' = DOMAIN baseGroups
  /\ UNCHANGED <<images, layers, popularity, graph, inDegree, queue, globalOrder,
                 baseGroups, walkLog>>
  /\ UNCHANGED <<mergeVars, transferVars, orderVars>>

\* One iteration of the range over baseGroups (lines 219-262); the map
\* delivers the groups in any order.
ProcessGroup(key) ==
  /\ pc = "groups"
  /\ key \in pending
  /\ LET st == ProcessGroupOf(key, baseGroups[key], [result |-> result, log |-> walkLog],
                              images, layers, Defaults, Tag, globalOrder)
     IN /\ result' = st.result
        /\ walkLog' = st.log
  /\ pending' = pending \ {key}
  /\ UNCHANGED <<images, layers, pc, popularity, graph, inDegree, queue, globalOrder,
                 baseGroups>>
  /\ UNCHANGED <<mergeVars, transferVars, orderVars>>

\* Line 264.
Return ==
  /\ pc = "groups"
  /\ pending = {}
  /\ pc' = "done"
  /\ UNCHANGED <<images, layers, popularity, graph, inDegree, queue, globalOrder,
                 baseGroups, pending, result, walkLog>>
  /\ UNCHANGED <<mergeVars, transferVars, orderVars>>

Next ==
  \/ Begin
  \/ KahnStep
  \/ KahnFinish
  \/ \E key \in ExtRefs \cup {BareRef} : ProcessGroup(key)
  \/ Return

Spec == Init /\ [][Next]_vars

\* ComputeIntermediates is one sequential call: a step that can be taken is
\* taken.  This is weak fairness of every step; for Begin and for the range
\* over the groups, whose successor always exists where the guard holds,
\* the enabling condition is written as the guard.
ProcessSomeGroup == \E key \in ExtRefs \cup {BareRef} : ProcessGroup(key)

Fairness ==
  /\ ([]<>(pc # "start") \/ []<><<Begin>>_vars)
  /\ WF_vars(KahnStep)
  /\ WF_vars(KahnFinish)
  /\ ([]<>(~(pc = "groups" /\ pending # {})) \/ []<><<ProcessSomeGroup>>_vars)
  /\ WF_vars(Return)

SpecLive == Init /\ [][Next]_vars /\ Fairness

\* ---------------------------------------------------------- the merge pass
\* An image of up to MaxStack layers with its sizes, its history and the
\* tar contents of its layers (the lists of TarPool in turn), and a cap.
MergeInit ==
  /\ PlannerIdle
  /\ TransferIdle
  /\ OrderIdle
  /\ \E n \in 0..MaxStack :
       /\ sizes \in [1..n -> 1..MaxSize]
       /\ \E gaps \in SUBSET (0..n) : history = HistoryOf(n, gaps, 0)
       /\ tarLayers = [i \in 1..n |-> TarPool[((i - 1) % Len(TarPool)) + 1]]
  /\ maxBytes \in 1..MaxCap
  /\ mpc = "plan"
  /\ scan = 0
  /\ plan = [steps |-> <<>>, acc |-> EmptyAcc]
  /\ merged = <<>>

\* planMerge: the scan takes the next layer.
PlanScan ==
  /\ mpc = "plan"
  /\ scan < Len(sizes)
  /\ plan' = planScan(plan, scan, sizes[scan + 1], maxBytes)
  /\ scan' = scan + 1
  /\ UNCHANGED <<sizes, maxBytes, history, tarLayers, mpc, merged>>
  /\ UNCHANGED <<plannerVars, transferVars, orderVars>>

\* planMerge: the end of the scan.
PlanFlush ==
  /\ mpc = "plan"
  /\ scan = Len(sizes)
  /\ plan' = planFlush(plan)
  /\ mpc' = "execute"
  /\ UNCHANGED <<sizes, maxBytes, history, tarLayers, scan, merged>>
  /\ UNCHANGED <<plannerVars, transferVars, orderVars>>

\* executeMerge on the image and the plan.
ExecuteMerge ==
  /\ mpc = "execute"
  /\ merged' = executeMerge(history, tarLayers, plan.steps)
  /\ mpc' = "done"
  /\ UNCHANGED <<sizes, maxBytes, history, tarLayers, scan, plan>>
  /\ UNCHANGED <<plannerVars, transferVars, orderVars>>

MergeNext ==
  \/ PlanScan
  \/ PlanFlush
  \/ ExecuteMerge

SpecMerge == MergeInit /\ [][MergeNext]_vars

\* ------------------------------------------------ EnsureImage, TransferImage
Engines == {"docker", "podman"}
ImageRefs == {"myimage:latest", "other:latest"}

\* LocalImageExists: the reference is in the engine's local store.
LocalImageExists(engine, ref) == ref \in store[engine]

ErrorOf(kind, names) == [kind |-> kind, names |-> names]

ProcEvent(op, ok) == [op |-> op, ok |-> ok, stdin |-> ""]

\* A transfer from the run engine to the build engine.
TransferArgsReversed(r, ref) == [src |-> r.RunEngine, dst |-> r.BuildEngine, ref |-> ref]

\* EnsureImage line 75: the arguments of TransferImage.
TransferArgs(r, ref) == [src |-> r.BuildEngine, dst |-> r.RunEngine, ref |-> ref]

TransferInit ==
  /\ PlannerIdle
  /\ MergeIdle
  /\ OrderIdle
  /\ rt \in [BuildEngine : Engines, RunEngine : Engines]
  /\ imageRef \in ImageRefs
  /\ store \in [Engines -> SUBSET ImageRefs]
  /\ entry \in {"EnsureImage", "TransferImage"}
  /\ tpc = IF entry = "EnsureImage" THEN "probeRun" ELSE "pipe"
  /\ xfer = IF entry = "EnsureImage" THEN <<>>
            ELSE [src |-> rt.BuildEngine, dst |-> rt.RunEngine, ref |-> imageRef]
  /\ probes = <<>>
  /\ events = <<>>
  /\ loadProc = "none"
  /\ saveProc = "none"
  /\ ret = NoError

\* EnsureImage lines 62-64.
ProbeRun ==
  /\ tpc = "probeRun"
  /\ probes' = Append(probes, rt.RunEngine)
  /\ IF LocalImageExists(rt.RunEngine, imageRef)
     THEN tpc' = "done" /\ ret' = ErrorOf("ok", <<>>)
     ELSE tpc' = "sameEngine" /\ ret' = ret
  /\ UNCHANGED <<rt, imageRef, store, entry, events, loadProc, saveProc, xfer>>
  /\ UNCHANGED <<plannerVars, mergeVars, orderVars>>

\* EnsureImage lines 66-68.
CheckSameEngine ==
  /\ tpc = "sameEngine"
  /\ IF rt.BuildEngine = rt.RunEngine
     THEN tpc' = "done" /\ ret' = ErrorOf("not found", <<rt.RunEngine>>)
     ELSE tpc' = "probeBuild" /\ ret' = ret
  /\ UNCHANGED <<rt, imageRef, store, entry, probes, events, loadProc, saveProc, xfer>>
  /\ UNCHANGED <<plannerVars, mergeVars, orderVars>>

\* EnsureImage lines 70-75: the second probe, then the call of
\* TransferImage(rt.BuildEngine, rt.RunEngine, imageRef).
ProbeBuild ==
  /\ tpc = "probeBuild"
  /\ probes' = Append(probes, rt.BuildEngine)
  /\ IF ~LocalImageExists(rt.BuildEngine, imageRef)
     THEN /\ tpc' = "done"
          /\ ret' = ErrorOf("not found", <<rt.RunEngine, rt.BuildEngine>>)
          /\ xfer' = xfer
     ELSE /\ tpc' = "pipe"
          /\ ret' = ret
          /\ xfer' = TransferArgs(rt, imageRef)
  /\ UNCHANGED <<rt, imageRef, store, entry, events, loadProc, saveProc>>
  /\ UNCHANGED <<plannerVars, mergeVars, orderVars>>

\* TransferImage lines 35-43: the two commands, the pipe and the wiring of
\* load's stdin; creating the pipe can fail.
CreatePipe ==
  /\ tpc = "pipe"
  /\ \E ok \in BOOLEAN :
       /\ events' = Append(events, ProcEvent("save.StdoutPipe", ok))
       /\ IF ok THEN tpc' = "loadStart" /\ ret' = ret
          ELSE tpc' = "done" /\ ret' = ErrorOf("creating pipe", <<>>)
  /\ UNCHANGED <<rt, imageRef, store, entry, probes, loadProc, saveProc, xfer>>
  /\ UNCHANGED <<plannerVars, mergeVars, orderVars>>

\* The event of load.Start(): load reads from the pipe of save's stdout.
LoadStarted(ok) == [ProcEvent("load.Start", ok) EXCEPT !.stdin = "save.stdout"]

\* TransferImage lines 45-47.
LoadStart ==
  /\ tpc = "loadStart"
  /\ \E ok \in BOOLEAN :
       /\ events' = Append(events, LoadStarted(ok))
       /\ IF ok THEN tpc' = "saveRun" /\ ret' = ret /\ loadProc' = "running"
          ELSE /\ tpc' = "done"
               /\ ret' = ErrorOf("starting load", <<xfer.dst>>)
               /\ loadProc' = loadProc
  /\ UNCHANGED <<rt, imageRef, store, entry, probes, saveProc, xfer>>
  /\ UNCHANGED <<plannerVars, mergeVars, orderVars>>

\* TransferImage line 48, first half: save.Run() starts the save process.
SaveStart ==
  /\ tpc = "saveRun"
  /\ \E ok \in BOOLEAN :
       /\ events' = Append(events, ProcEvent("save.Start", ok))
       /\ IF ok THEN tpc' = "saveWait" /\ ret' = ret /\ saveProc' = "running"
          ELSE /\ tpc' = "done"
               /\ ret' = ErrorOf("save failed", <<xfer.src>>)
               /\ saveProc' = saveProc
  /\ UNCHANGED <<rt, imageRef, store, entry, probes, loadProc, xfer>>
  /\ UNCHANGED <<plannerVars, mergeVars, orderVars>>

\* The load process ends on its own, with or without having loaded the
\* image, any time after its start.
LoadProcExit ==
  /\ loadProc = "running"
  /\ tpc # "done"
  /\ \E ok \in BOOLEAN :
       /\ loadProc' = IF ok THEN "exit 0" ELSE "exit 1"
       /\ ok => saveProc = "exit 0"
       /\ store' = IF ok THEN [store EXCEPT ![xfer.dst] = @ \cup {xfer.ref}] ELSE store
  /\ UNCHANGED <<rt, imageRef, entry, tpc, probes, events, saveProc, xfer, ret>>
  /\ UNCHANGED <<plannerVars, mergeVars, orderVars>>

\* A wait for save that takes every exit for a success.
SaveRunIgnoringExit(ok) ==
  /\ tpc' = "loadWait"
  /\ ret' = ret

\* TransferImage lines 48-50: the return of save.Run().
SaveRunReturns(ok) ==
  IF ok THEN tpc' = "loadWait" /\ ret' = ret
  ELSE tpc' = "done" /\ ret' = ErrorOf("save failed", <<xfer.src>>)

\* TransferImage line 48, second half: save.Run() returns when the save
\* process has ended.
SaveExit ==
  /\ tpc = "saveWait"
  /\ \E ok \in BOOLEAN :
       /\ saveProc' = IF ok THEN "exit 0" ELSE "exit 1"
       /\ events' = Append(events, ProcEvent("save.Exit", ok))
       /\ SaveRunReturns(ok)
  /\ UNCHANGED <<rt, imageRef, store, entry, probes, loadProc, xfer>>
  /\ UNCHANGED <<plannerVars, mergeVars, orderVars>>

\* TransferImage lines 51-56: load.Wait() returns when the load process
\* has ended.
LoadWait ==
  /\ tpc = "loadWait"
  /\ loadProc \in {"exit 0", "exit 1"}
  /\ events' = Append(events, ProcEvent("load.Wait", loadProc = "exit 0"))
  /\ tpc' = "done"
  /\ ret' = IF loadProc = "exit 0" THEN ErrorOf("ok", <<>>)
            ELSE ErrorOf("load failed", <<xfer.dst>>)
  /\ UNCHANGED <<rt, imageRef, store, entry, probes, loadProc, saveProc, xfer>>
  /\ UNCHANGED <<plannerVars, mergeVars, orderVars>>

TransferNext ==
  \/ ProbeRun
  \/ CheckSameEngine
  \/ ProbeBuild
  \/ CreatePipe
  \/ LoadStart
  \/ SaveStart
  \/ LoadProcExit
  \/ SaveExit
  \/ LoadWait

SpecTransfer == TransferInit /\ [][TransferNext]_vars

\* ------------------------------------------- ImageNeedsBuilder, image order
\* The recipe files a layer directory can hold; these two need the builder.
RecipeKinds == {"rpm.list", "deb.list", "root.yml", "pixi.toml", "package.json", "Cargo.toml",
                "user.yml", "supervisord.conf"}
BuilderKinds == {"pixi.toml", "package.json"}

\* A predicate that looks at the image's own layer list only.
ImageNeedsBuilderOwnOnly(name, imgs, lys, rcp, hasLayers) ==
  IF ~hasLayers THEN TRUE
  ELSE \E l \in SeqToSet(imgs[name].Layers) : rcp[l] \cap BuilderKinds # {}

\* ImageNeedsBuilder: some layer of the image's full layer set has a recipe
\* that needs the builder; without a layer table the answer is true.
ImageNeedsBuilder(name, imgs, lys, rcp, hasLayers) ==
  IF ~hasLayers THEN TRUE
  ELSE \E l \in LayersProvidedByImage(name, imgs, lys) : rcp[l] \cap BuilderKinds # {}

\* The images that must be built before image n: its internal base and,
\* when n needs it, the declared builder.
OrderDeps(n, imgs, lys, rcp, bld) ==
  (IF imgs[n].IsExternalBase THEN {} ELSE {imgs[n].Base})
  \cup (IF bld # "" /\ bld \in DOMAIN imgs /\ n # bld
           /\ ImageNeedsBuilder(n, imgs, lys, rcp, TRUE)
        THEN {bld} ELSE {})

RECURSIVE orderLoop(_, _, _, _, _, _)
orderLoop(remaining, done, imgs, lys, rcp, bld) ==
  LET ready == {n \in remaining : OrderDeps(n, imgs, lys, rcp, bld) \cap remaining = {}}
  IN IF remaining = {} THEN [ok |-> TRUE, order |-> done]
     ELSE IF ready = {} THEN [ok |-> FALSE, order |-> <<>>]
     ELSE LET n == MinName(ready)
          IN orderLoop(remaining \ {n}, Append(done, n), imgs, lys, rcp, bld)

\* ResolveImageOrder as the test calls it (images, layer table, builder): a
\* topological order of the image map over the base and builder edges, or
\* an error when there is none.
ResolveImageOrder(imgs, lys, rcp, bld) ==
  orderLoop(DOMAIN imgs, <<>>, imgs, lys, rcp, bld)

\* ResolveImageOrder as Generate calls it, with the image map alone: no
\* layer table and no builder reach it, the base edges are all it orders.
ResolveImageOrderOfImages(imgs) ==
  orderLoop(DOMAIN imgs, <<>>, imgs, <<>>, <<>>, "")

\* The recipe tables of the inputs: root.yml in every layer; a pixi.toml
\* and a Cargo.toml instead in the first layer; a package list, a
\* package.json and a user.yml next to it in the last.  A table names
\* rpm.list or deb.list only when the list holds a package.
RecipeTables ==
  LET first == LayerNameSeq[1]
      last == LayerNameSeq[Min2(MaxLayers, Len(LayerNameSeq))]
  IN {[l \in LayerSet |-> {"root.yml"}],
      [l \in LayerSet |-> IF l = first THEN {"pixi.toml", "Cargo.toml"} ELSE {"root.yml"}],
      [l \in LayerSet |-> IF l = last
                           THEN {"rpm.list", "root.yml", "package.json", "user.yml"}
                           ELSE {"root.yml"}]}

\* ------------------------------------------------------------ the build files
\* One directive of a generated Containerfile: the instruction, what it
\* runs or names, and the layer whose step it is ("" outside the layers).
Line(op, arg, layer) == [op |-> op, arg |-> arg, layer |-> layer]

\* A resolution that hands back the base string as it is written.
resolveBaseImageRaw(img, imgs) == img.Base

\* resolveBaseImage, lines 177-184; an internal base that is not in the map
\* is a nil pointer.
resolveBaseImage(img, imgs) ==
  IF img.IsExternalBase THEN img.Base
  ELSE IF img.Base \in DOMAIN imgs THEN imgs[img.Base].FullTag ELSE "<nil>"

\* writeBootstrap, lines 187-210: the task binary, the user, the
\* environment and the working directory.
writeBootstrap(pkg) ==
  <<Line("#", "Bootstrap", ""),
    Line("RUN", "install task", ""),
    Line("RUN", "useradd user", ""),
    Line("ENV", "NPM_CONFIG_PREFIX", ""),
    Line("ENV", "npm_config_cache", ""),
    Line("ENV", "PATH", ""),
    Line("WORKDIR", "/home/user", "")>>

\* The user-level recipes in the order writeLayerSteps takes them.
UserRecipes == <<"pixi.toml", "package.json", "Cargo.toml", "user.yml">>

\* writeLayerSteps, lines 213-282: the package install and root.yml, then
\* the user-level recipes behind one USER user, then USER root when a
\* user-level recipe was written.
writeLayerSteps(layerName, pkg, rcp) ==
  LET has(f) == f \in rcp[layerName]
      native == IF pkg = "rpm" /\ has("rpm.list")
                THEN <<Line("RUN", "dnf install", layerName)>>
                ELSE IF pkg = "deb" /\ has("deb.list")
                THEN <<Line("RUN", "apt-get install", layerName)>>
                ELSE <<>>
      rootYml == IF has("root.yml") THEN <<Line("RUN", "root.yml", layerName)>> ELSE <<>>
      present == SelectSeq(UserRecipes, has)
      userSteps == [k \in 1..Len(present) |-> Line("RUN", present[k], layerName)]
      asUser == present # <<>>
  IN <<Line("#", "Layer", layerName)>> \o native \o rootYml
     \o (IF asUser THEN <<Line("USER", "user", layerName)>> \o userSteps ELSE <<>>)
     \o (IF asUser THEN <<Line("USER", "root", layerName)>> ELSE <<>>)

\* Lines 107-111: one scratch stage per layer of the layer order.
RECURSIVE scratchStages(_)
scratchStages(layerOrder) ==
  IF layerOrder = <<>> THEN <<>>
  ELSE <<Line("FROM", "scratch", Head(layerOrder)),
         Line("COPY", "layers/" \o Head(layerOrder) \o "/", Head(layerOrder))>>
       \o scratchStages(Tail(layerOrder))

\* Lines 146-149.
RECURSIVE layerSteps(_, _, _)
layerSteps(layerOrder, pkg, rcp) ==
  IF layerOrder = <<>> THEN <<>>
  ELSE writeLayerSteps(Head(layerOrder), pkg, rcp) \o layerSteps(Tail(layerOrder), pkg, rcp)

\* generateContainerfile, lines 85-174: the scratch stages, the supervisord
\* stage, the base, the bootstrap on an external base, the layers' steps,
\* the final USER user and the lint of a bootc image.
generateContainerfile(imageName, imgs, lys, rcp) ==
  LET img == imgs[imageName]
      parentLayers == IF ~img.IsExternalBase
                      THEN LayersProvidedByImage(img.Base, imgs, lys)
                      ELSE {}
      layerOrder == ResolveLayerOrder(img.Layers, lys, parentLayers)
      services == SelectSeq(layerOrder, LAMBDA l : "supervisord.conf" \in rcp[l])
      hasServices == services # <<>>
  IN scratchStages(layerOrder)
     \o (IF hasServices
         THEN <<Line("FROM", "scratch", "supervisord-conf"),
                Line("COPY", "templates/supervisord.header.conf", "supervisord-conf")>>
              \o [k \in 1..Len(services) |->
                    Line("COPY", "layers/" \o services[k] \o "/supervisord.conf",
                         "supervisord-conf")]
         ELSE <<>>)
     \o <<Line("ARG", resolveBaseImage(img, imgs), ""),
          Line("FROM", "${BASE_IMAGE}", "")>>
     \o (IF img.IsExternalBase THEN writeBootstrap(img.Pkg) ELSE <<>>)
     \o layerSteps(layerOrder, img.Pkg, rcp)
     \o (IF hasServices THEN <<Line("RUN", "assemble supervisord.conf", "")>> ELSE <<>>)
     \o <<Line("USER", "user", "")>>
     \o (IF img.Bootc THEN <<Line("RUN", "bootc container lint", "")>> ELSE <<>>)

\* Config.Images[name].Tag, the zero value for a name without an entry.
ConfigTagOf(name, cfgTags) ==
  IF name \in DOMAIN cfgTags THEN cfgTags[name] ELSE ""

\* generateBakeHCL, lines 368-403: the target of one image with its build
\* file, its tags (the latest tag next to the full tag under automatic
\* versioning) and, on an internal base, its dependency.
BakeTarget(name, imgs, cfgTags) ==
  LET img == imgs[name]
      latest == IF img.Registry # ""
                THEN img.Registry \o "/" \o name \o ":latest"
                ELSE name \o ":latest"
  IN [name |-> name,
      dockerfile |-> ".build/" \o name \o "/Containerfile",
      tags |-> IF ConfigTagOf(name, cfgTags) \in {"", "auto"}
               THEN <<img.FullTag, latest>> ELSE <<img.FullTag>>,
      depends_on |-> IF ~img.IsExternalBase THEN <<img.Base>> ELSE <<>>]

\* The configurations of a table of images: no tag written and no bootc
\* image; or, for a table of at most two images, the first image a bootc
\* image under tag "auto" and the other with its tag written out.
ConfigVariants(t) ==
  LET first == ImageNameSeq[1]
  IN {[imgs |-> t, tags |-> [x \in DOMAIN t |-> ""]]}
     \cup (IF Cardinality(DOMAIN t) <= 2
           THEN {[imgs |-> [x \in DOMAIN t |->
                              IF x = first THEN [t[x] EXCEPT !.Bootc = TRUE] ELSE t[x]],
                  tags |-> [x \in DOMAIN t |-> IF x = first THEN "auto" ELSE Tag]]}
           ELSE {})

\* The generator after NewGenerator, and the fixtures of the tests: tables
\* of two images sit on either external reference, larger ones on the
\* first; the builder is the first image.
OrderInit ==
  /\ MergeIdle
  /\ TransferIdle
  /\ \E n \in 1..MaxImages :
       \E t \in {u \in ImageTables(n) :
                   n = 2 \/ \A x \in DOMAIN u : u[x].Base # ExtRefSeq[2]} :
         \E c \in ConfigVariants(t) :
           /\ images = c.imgs
           /\ configTags = c.tags
  /\ layers \in LayerTables
  /\ recipes \in RecipeTables
  /\ builder = ImageNameSeq[1]
  /\ pc = "idle"
  /\ popularity = <<>> /\ graph = <<>> /\ inDegree = <<>> /\ queue = <<>>
  /\ globalOrder = <<>> /\ baseGroups = <<>> /\ pending = {}
  /\ result = <<>> /\ walkLog = <<>>
  /\ needs = <<>> /\ imageOrder = <<>> /\ emitted = <<>> /\ bake = <<>>
  /\ files = <<>> /\ targets = <<>>
  /\ opc = "start"

\* TestImageNeedsBuilder: ImageNeedsBuilder for every image of the map,
\* with the layer table and with nil.
NeedsBuilder ==
  /\ opc = "start"
  /\ needs' = [n \in DOMAIN images |->
                 [withLayers |-> ImageNeedsBuilder(n, images, layers, recipes, TRUE),
                  withNil |-> ImageNeedsBuilder(n, images, layers, recipes, FALSE)]]
  /\ opc' = "needs"
  /\ UNCHANGED <<recipes, builder, configTags, imageOrder, emitted, files, bake, targets>>
  /\ UNCHANGED <<plannerVars, mergeVars, transferVars>>

\* TestComputeIntermediates_RealisticConfig: ComputeIntermediates on the
\* resolved images, the base groups taken in any order.
Intermediates ==
  /\ opc = "start"
  /\ \E keys \in Perms(DOMAIN BaseGroupsOf(images)) :
       result' = ComputeIntermediatesIn(keys, images, layers, Defaults, Tag).result
  /\ opc' = "intermediates"
  /\ UNCHANGED <<images, layers, pc, popularity, graph, inDegree, queue, globalOrder,
                 baseGroups, pending, walkLog>>
  /\ UNCHANGED <<recipes, builder, configTags, needs, imageOrder, emitted, files, bake,
                 targets>>
  /\ UNCHANGED <<mergeVars, transferVars>>

\* The same test: ResolveImageOrder of the returned map, with the layer
\* table and the builder.
ResolveOrderOfResult ==
  /\ opc = "intermediates"
  /\ imageOrder' = ResolveImageOrder(result, layers, recipes, builder)
  /\ opc' = "resolved"
  /\ UNCHANGED <<recipes, builder, configTags, needs, emitted, files, bake, targets>>
  /\ UNCHANGED <<plannerVars, mergeVars, transferVars>>

\* Generate lines 58-61: the build directory is made, or Generate returns
\* the error.
MkdirAll ==
  /\ opc = "start"
  /\ \E ok \in BOOLEAN : opc' = IF ok THEN "order" ELSE "error"
  /\ UNCHANGED <<recipes, builder, configTags, needs, imageOrder, emitted, files, bake,
                 targets>>
  /\ UNCHANGED <<plannerVars, mergeVars, transferVars>>

\* Generate lines 63-67: the order of g.Images.
ResolveOrder ==
  /\ opc = "order"
  /\ imageOrder' = ResolveImageOrderOfImages(images)
  /\ opc' = IF imageOrder'.ok THEN "generate" ELSE "error"
  /\ UNCHANGED <<recipes, builder, configTags, needs, emitted, files, bake, targets>>
  /\ UNCHANGED <<plannerVars, mergeVars, transferVars>>

\* Generate lines 70-74: the Containerfile of the next image of the order
\* is written, or the directory or the file cannot be written and Generate
\* returns the error.
GenerateContainerfile ==
  /\ opc = "generate"
  /\ Len(emitted) < Len(imageOrder.order)
  /\ LET name == imageOrder.order[Len(emitted) + 1]
     IN \E ok \in BOOLEAN :
          IF ok
          THEN /\ emitted' = Append(emitted, name)
               /\ files' = [n \in (DOMAIN files) \cup {name} |->
                              IF n = name
                              THEN generateContainerfile(name, images, layers, recipes)
                              ELSE files[n]]
               /\ opc' = opc
          ELSE /\ opc' = "error"
               /\ UNCHANGED <<emitted, files>>
  /\ UNCHANGED <<recipes, builder, configTags, needs, imageOrder, bake, targets>>
  /\ UNCHANGED <<plannerVars, mergeVars, transferVars>>

\* Generate lines 77-81 and generateBakeHCL: the group of all images and
\* one target per image of the order, or the file cannot be written.
GenerateBakeHCL ==
  /\ opc = "generate"
  /\ Len(emitted) = Len(imageOrder.order)
  /\ \E ok \in BOOLEAN :
       IF ok
       THEN /\ bake' = [k \in 1..Len(imageOrder.order) |-> imageOrder.order[k]]
            /\ targets' = [k \in 1..Len(imageOrder.order) |->
                             BakeTarget(imageOrder.order[k], images, configTags)]
            /\ opc' = "done"
       ELSE /\ opc' = "error"
            /\ UNCHANGED <<bake, targets>>
  /\ UNCHANGED <<recipes, builder, configTags, needs, imageOrder, emitted, files>>
  /\ UNCHANGED <<plannerVars, mergeVars, transferVars>>

OrderNext ==
  \/ NeedsBuilder
  \/ Intermediates
  \/ ResolveOrderOfResult
  \/ MkdirAll
  \/ ResolveOrder
  \/ GenerateContainerfile
  \/ GenerateBakeHCL

SpecOrder == OrderInit /\ [][OrderNext]_vars

\* ---------------------------------------------------- notions of the claims
\* The images on the base chain of image n, n included.
RECURSIVE ChainImages(_, _, _)
ChainImages(n, imgs, seen) ==
  IF n \notin DOMAIN imgs \/ n \in seen THEN seen
  ELSE ChainImages(imgs[n].Base, imgs, seen \cup {n})

\* The layers image n installs: the own layers of every image on its base
\* chain with their transitive dependencies.
InstalledBy(n, imgs, lys) ==
  UNION {DepClosure(SeqToSet(imgs[j].Layers), lys) : j \in ChainImages(n, imgs, {})}

UsedLayers == UNION {InstalledBy(n, images, layers) : n \in DOMAIN images}

PopOf(l) == Cardinality({n \in DOMAIN images : l \in InstalledBy(n, images, layers)})

NoDuplicates(s) == \A i, j \in 1..Len(s) : s[i] = s[j] => i = j

Ordered == pc = "done"

\* The candidates of the k-th step of the Kahn loop: the layers in use that
\* are not emitted yet and whose dependencies in use are all emitted.
ReadyAt(k) ==
  LET before == {globalOrder[i] : i \in 1..(k - 1)}
  IN {l \in UsedLayers \ before : (layers[l].Depends \cap UsedLayers) \subseteq before}

\* ------------------------------------------------------------------ claims
\* C1: the global order holds exactly the layers in use (popularity > 0),
\* each once, and every dependency of a layer stands before the layer.
C1_TopologicalOrder ==
  Ordered =>
    /\ SeqToSet(globalOrder) = UsedLayers
    /\ NoDuplicates(globalOrder)
    /\ \A l \in UsedLayers : PopOf(l) > 0
    /\ \A l \in LayerSet \ UsedLayers : PopOf(l) = 0
    /\ \A l \in UsedLayers : \A d \in layers[l].Depends :
         /\ d \in UsedLayers
         /\ IndexOf(globalOrder, d) < IndexOf(globalOrder, l)

\* C1 witness: an order with a layer left out because no image uses it, a
\* layer that is in use only as a dependency, and a layer inherited over a base.
C1_Witness ==
  /\ pc = "done"
  /\ LayerSet \ UsedLayers # {}
  /\ \E l \in UsedLayers : \E d \in layers[l].Depends :
       /\ StrLess(l, d)
       /\ \A n \in DOMAIN images : d \notin SeqToSet(images[n].Layers)
  /\ \E n \in DOMAIN images :
       InstalledBy(n, images, layers) # DepClosure(SeqToSet(images[n].Layers), layers)

\* C2: every layer of the order was, when it was emitted, a candidate of
\* highest popularity, and of the smallest name among those.
C2_PopularityPriority ==
  pc \in {"kahn", "done"} =>
    \A k \in 1..Len(globalOrder) :
      /\ globalOrder[k] \in ReadyAt(k)
      /\ \A c \in ReadyAt(k) :
           \/ PopOf(c) < PopOf(globalOrder[k])
           \/ PopOf(c) = PopOf(globalOrder[k]) /\ ~StrLess(c, globalOrder[k])

\* C2 witness: one step preferred a more popular layer over a candidate with
\* a smaller name, another step chose between candidates of equal popularity.
C2_Witness ==
  /\ pc = "done"
  /\ \E k \in 1..Len(globalOrder) : \E c \in ReadyAt(k) :
       PopOf(c) < PopOf(globalOrder[k]) /\ StrLess(c, globalOrder[k])
  /\ \E k \in 1..Len(globalOrder) : \E c \in ReadyAt(k) :
       c # globalOrder[k] /\ PopOf(c) = PopOf(globalOrder[k])

\* s is a subsequence of t (t without duplicates).
IsSubsequence(s, t) ==
  /\ SeqToSet(s) \subseteq SeqToSet(t)
  /\ \A i, j \in 1..Len(s) : i < j => IndexOf(t, s[i]) < IndexOf(t, s[j])

\* C3: the absolute sequence of every image is a subsequence of the global
\* order and holds exactly the layers the image installs, each once.
C3_AbsoluteSubsequence ==
  Ordered =>
    \A n \in DOMAIN images :
      LET seq == AbsoluteLayerSequence(n, images, layers, globalOrder)
      IN /\ IsSubsequence(seq, globalOrder)
         /\ NoDuplicates(seq)
         /\ SeqToSet(seq) = InstalledBy(n, images, layers)

\* C3 witness: an image on an internal base whose sequence holds inherited
\* layers and skips a layer that stands between two of them in the global order.
C3_Witness ==
  /\ pc = "done"
  /\ \E n \in DOMAIN images :
       LET seq == AbsoluteLayerSequence(n, images, layers, globalOrder)
       IN /\ ~images[n].IsExternalBase
          /\ SeqToSet(seq) # DepClosure(SeqToSet(images[n].Layers), layers)
          /\ \E i \in 1..(Len(seq) - 1) :
               IndexOf(globalOrder, seq[i]) + 1 < IndexOf(globalOrder, seq[i + 1])

\* The images met by following Base from image n through the map res,
\* n excluded unless the walk comes back to it.
RECURSIVE BaseAncestors(_, _, _)
BaseAncestors(n, res, seen) ==
  IF n \notin DOMAIN res THEN seen
  ELSE LET b == res[n].Base
       IN IF b \notin DOMAIN res \/ b \in seen THEN seen
          ELSE BaseAncestors(b, res, seen \cup {b})

\* Where following Base from n leaves the map: the external reference the
\* walk ends at, or "" when it has not ended after fuel steps.
RECURSIVE BaseWalkEnd(_, _, _)
BaseWalkEnd(n, res, fuel) ==
  IF n \notin DOMAIN res THEN n
  ELSE IF fuel = 0 THEN ""
  ELSE BaseWalkEnd(res[n].Base, res, fuel - 1)

\* C4: in the result no image lists as an own layer a layer its internal
\* base already provides.
C4_NoDuplicateWork ==
  pc = "done" =>
    \A n \in DOMAIN result :
      result[n].Base \in DOMAIN result =>
        SeqToSet(result[n].Layers)
          \cap LayersProvidedByImage(result[n].Base, result, layers) = {}

\* C5: the base graph of the result is acyclic: following Base from an
\* image of the result never comes back to that image.
C5_ResultAcyclic ==
  pc = "done" => \A n \in DOMAIN result : n \notin BaseAncestors(n, result, {})

\* C6: following Base from a user image ends at the ultimate external base
\* of the image's group.
C6_OneExternalRoot ==
  pc = "done" =>
    \A n \in DOMAIN images :
      BaseWalkEnd(n, result, Cardinality(DOMAIN result) + 1)
        = resolveExternalBase(n, images)

\* The root image of a group (the starting parent of its walk) whose absolute
\* sequence is not empty: the image sits on an internal base that has layers.
RootImageBelowRoot ==
  \E key \in DOMAIN baseGroups :
    LET names == SortedSeq(baseGroups[key])
    IN /\ Len(names) >= 2
       /\ RootImageName(names, images) # ""
       /\ InstalledBy(RootImageName(names, images), images, layers) # {}

\* C7: the returned map is the one the run over the groups in ascending
\* key order returns.
C7_Deterministic ==
  pc = "done" =>
    result = ComputeIntermediatesIn(SortedSeq(DOMAIN baseGroups), images, layers,
                                    Defaults, Tag).result

\* ------------------------------------------------ the trie, seen from the input
AbsSeq(n) == AbsoluteLayerSequence(n, images, layers, globalOrder)

IsPrefix(p, q) == Len(p) <= Len(q) /\ SubSeq(q, 1, Len(p)) = p

\* The images of group key that end strictly below path, at path, and the
\* layers that continue path.
EndBelow(key, path) ==
  {n \in baseGroups[key] : IsPrefix(path, AbsSeq(n)) /\ Len(AbsSeq(n)) > Len(path)}

EndAt(key, path) == {n \in baseGroups[key] : AbsSeq(n) = path}

ChildLayers(key, path) == {AbsSeq(n)[Len(path) + 1] : n \in EndBelow(key, path)}

\* The nodes below the root with two or more children and no terminal image.
PureBranchNodes(key) ==
  {path \in UNION {{SubSeq(AbsSeq(n), 1, k) : k \in 1..Len(AbsSeq(n))} : n \in baseGroups[key]} :
     /\ Cardinality(ChildLayers(key, path)) >= 2
     /\ EndAt(key, path) = {}}

\* Two sequences share a non-empty prefix and then diverge.
Diverge(p, q) ==
  \E k \in 1..Len(p) :
    /\ k < Len(p) /\ k < Len(q)
    /\ SubSeq(p, 1, k) = SubSeq(q, 1, k)
    /\ p[k + 1] # q[k + 1]

WalkedGroups == {key \in DOMAIN baseGroups : Cardinality(baseGroups[key]) >= 2}

GroupRoot(key) == RootImageName(SortedSeq(baseGroups[key]), images)

\* C8: a node with two or more children and no terminal image gets one
\* auto-intermediate on the parent of the walk, every image ending below
\* the node has it on its base chain, and two images that diverge after a
\* shared prefix do not base on the root image.
C8_PureBranch ==
  pc = "done" =>
    /\ \A key \in WalkedGroups : \A path \in PureBranchNodes(key) :
         \E i \in 1..Len(walkLog) :
           LET e == walkLog[i]
           IN /\ e.group = key /\ e.path = path
              /\ \A j \in 1..Len(walkLog) :
                   (j # i) => /\ walkLog[j].name # e.name \/ walkLog[j].kind = "leaf"
                              /\ ~(walkLog[j].group = key /\ walkLog[j].path = path)
              /\ e.name \notin DOMAIN images
              /\ e.name \in DOMAIN result
              /\ result[e.name].Auto
              /\ result[e.name].Base = e.parent
              /\ \A n \in EndBelow(key, path) : e.name \in BaseAncestors(n, result, {})
    /\ \A key \in WalkedGroups :
         GroupRoot(key) # "" =>
           \A x, y \in baseGroups[key] :
             Diverge(AbsSeq(x), AbsSeq(y)) => result[x].Base # GroupRoot(key)

\* C8 witness: two images based on the root image of their group share a
\* layer and diverge, and the walk is over.
C8_Witness ==
  /\ pc = "done"
  /\ \E key \in WalkedGroups :
       /\ PureBranchNodes(key) # {}
       /\ GroupRoot(key) # ""
       /\ \E x, y \in baseGroups[key] :
            /\ Diverge(AbsSeq(x), AbsSeq(y))
            /\ images[x].Base = GroupRoot(key)
            /\ images[y].Base = GroupRoot(key)

\* No two images of group key share the first layer of their sequences.
NoSharedFirstLayer(key) ==
  \A x, y \in baseGroups[key] :
    (x # y /\ AbsSeq(x) # <<>> /\ AbsSeq(y) # <<>>) => AbsSeq(x)[1] # AbsSeq(y)[1]

\* The starting parent of group key: its root image, else its external base.
GroupStart(key) == IF GroupRoot(key) # "" THEN GroupRoot(key) ELSE key

\* C9: a group in which no two images share a first layer gets no
\* auto-intermediate, and its images based on the starting parent keep
\* their base.
C9_NoBranching ==
  pc = "done" =>
    \A key \in DOMAIN baseGroups :
      NoSharedFirstLayer(key) =>
        /\ \A i \in 1..Len(walkLog) :
             walkLog[i].group = key => walkLog[i].kind = "leaf"
        /\ \A n \in DOMAIN result :
             result[n].Auto =>
               BaseWalkEnd(n, result, Cardinality(DOMAIN result) + 1) # key
        /\ \A n \in baseGroups[key] :
             images[n].Base = GroupStart(key) => result[n].Base = images[n].Base

\* C9 witness: a group of three, two of them on the root image with
\* different first layers, next to nothing else to share.
C9_Witness ==
  /\ pc = "done"
  /\ \E key \in DOMAIN baseGroups :
       /\ NoSharedFirstLayer(key)
       /\ GroupRoot(key) # ""
       /\ \E x, y \in baseGroups[key] :
            /\ x # y
            /\ images[x].Base = GroupRoot(key) /\ images[y].Base = GroupRoot(key)
            /\ AbsSeq(x) # <<>> /\ AbsSeq(y) # <<>>

\* Every input image is in the result as it was, but for Base and
\* IsExternalBase, and every other image of the result is an auto image.
FrameOK ==
  /\ \A n \in DOMAIN images :
       /\ n \in DOMAIN result
       /\ ~result[n].Auto
       /\ [result[n] EXCEPT !.Base = images[n].Base,
                            !.IsExternalBase = images[n].IsExternalBase] = images[n]
  /\ \A n \in (DOMAIN result) \ (DOMAIN images) : result[n].Auto

\* C10: no step changes the input map, and from the copy on the result
\* holds every input image unchanged but for its base, plus auto images.
C10_Frame ==
  [][images' = images /\ (pc' \in {"groups", "done"} => FrameOK')]_vars

\* C10 witness: a finished run that added an auto image and rewrote a base.
C10_Witness ==
  /\ pc = "done"
  /\ \E n \in DOMAIN result : result[n].Auto
  /\ \E n \in DOMAIN images : result[n].Base # images[n].Base

\* C11: in the returned map the flag IsExternalBase of every image is true
\* exactly when its Base names no image of the map.
C11_ExternalFlag ==
  pc = "done" =>
    \A n \in DOMAIN result :
      result[n].IsExternalBase <=> (result[n].Base \notin DOMAIN result)

\* ------------------------------------------------ notions of the merge claims
PlanReady == mpc \in {"execute", "done"}

RECURSIVE SumSizes(_)
SumSizes(ls) == IF ls = <<>> THEN 0 ELSE sizes[Head(ls) + 1] + SumSizes(Tail(ls))

RECURSIVE ConcatLayers(_, _)
ConcatLayers(stps, k) ==
  IF k > Len(stps) THEN <<>> ELSE stps[k].Layers \o ConcatLayers(stps, k + 1)

IsKeepStep(st) == st.Keep /\ Len(st.Layers) = 1

IsMergeStep(st) == ~st.Keep /\ Len(st.Layers) >= 2

\* C12: every step of the plan is a keep step of one layer or a merge step
\* of two or more layers whose sizes sum to at most the cap, and a layer
\* larger than the cap is alone in a keep step.
C12_PlanSizeBound ==
  PlanReady =>
    /\ \A k \in 1..Len(plan.steps) :
         \/ IsKeepStep(plan.steps[k])
         \/ IsMergeStep(plan.steps[k]) /\ SumSizes(plan.steps[k].Layers) <= maxBytes
    /\ \A i \in 0..(Len(sizes) - 1) :
         sizes[i + 1] > maxBytes =>
           \E k \in 1..Len(plan.steps) :
             IsKeepStep(plan.steps[k]) /\ plan.steps[k].Layers = <<i>>

\* C12 witness: a plan with a merge step and a layer larger than the cap.
C12_Witness ==
  /\ PlanReady
  /\ \E k \in 1..Len(plan.steps) : IsMergeStep(plan.steps[k])
  /\ \E i \in 1..Len(sizes) : sizes[i] > maxBytes

\* C13: the plan is the one of the greedy scan: non-empty contiguous runs
\* that concatenate to 0..n-1, a run closed exactly when the next layer
\* would not fit, a merge step exactly for a run of two or more layers.
C13_GreedyPlan ==
  PlanReady =>
    /\ plan.steps = planMerge(sizes, maxBytes)
    /\ ConcatLayers(plan.steps, 1) = [i \in 1..Len(sizes) |-> i - 1]
    /\ \A k \in 1..Len(plan.steps) :
         /\ plan.steps[k].Layers # <<>>
         /\ plan.steps[k].Keep <=> (Len(plan.steps[k].Layers) = 1)
         /\ ~plan.steps[k].Keep <=> (Len(plan.steps[k].Layers) >= 2)
         /\ Len(plan.steps[k].Layers) >= 2 => SumSizes(plan.steps[k].Layers) <= maxBytes
    /\ \A k \in 1..(Len(plan.steps) - 1) :
         SumSizes(plan.steps[k].Layers) + sizes[plan.steps[k + 1].Layers[1] + 1] > maxBytes

\* C13 witness: a plan of a merge step followed by a keep step and more.
C13_Witness ==
  /\ PlanReady
  /\ Len(plan.steps) >= 2
  /\ IsMergeStep(plan.steps[1])
  /\ \E k \in 2..Len(plan.steps) : IsKeepStep(plan.steps[k])

EmptyRecords(hist) == SelectSeq(hist, LAMBDA h : h.EmptyLayer)

\* C14: the merged image has one layer per step and one history record per
\* step next to the empty records of the original history.
C14_HistoryBalance ==
  mpc = "done" =>
    /\ Len(merged.Layers) = Len(plan.steps)
    /\ Len(merged.History) = Len(EmptyRecords(history)) + Len(plan.steps)

\* C14 witness: a merged image from a history with empty records and a
\* plan with a merge step.
C14_Witness ==
  /\ mpc = "done"
  /\ EmptyRecords(history) # <<>>
  /\ \E k \in 1..Len(plan.steps) : IsMergeStep(plan.steps[k])
  /\ Len(plan.steps) >= 2

\* The position of the record with this created_by in a history.
PosOf(hist, createdBy) == CHOOSE i \in 1..Len(hist) : hist[i].CreatedBy = createdBy

\* The created_by of the records of a step's layers, in layer order.
ConstituentsOf(step) ==
  [j \in 1..Len(step.Layers) |-> LayerRecords(history)[step.Layers[j] + 1]]

\* C15: the empty records keep their order, every step has one non-empty
\* record (joined created_by for a merge step, the original record for a
\* keep step), the step records are in step order, and an empty record
\* precedes a step's record exactly when it preceded the record of the
\* step's first layer.
C15_HistoryAlignment ==
  mpc = "done" =>
    /\ EmptyRecords(merged.History) = EmptyRecords(history)
    /\ Len(LayerRecords(merged.History)) = Len(plan.steps)
    /\ \A k \in 1..Len(plan.steps) :
         LET rec == LayerRecords(merged.History)[k]
             step == plan.steps[k]
         IN /\ ~rec.EmptyLayer
            /\ step.Keep => rec = ConstituentsOf(step)[1]
            /\ ~step.Keep => rec.CreatedBy = JoinCreatedBy(ConstituentsOf(step))
            /\ \A i \in 1..Len(history) :
                 history[i].EmptyLayer =>
                   ((PosOf(merged.History, history[i].CreatedBy)
                       < PosOf(merged.History, rec.CreatedBy))
                    <=> (i < PosOf(history, ConstituentsOf(step)[1].CreatedBy)))

\* C15 witness: a merge step whose layers have an empty record between
\* them, and an empty record after the last layer.
C15_Witness ==
  /\ mpc = "done"
  /\ \E k \in 1..Len(plan.steps) :
       /\ IsMergeStep(plan.steps[k])
       /\ \E i \in 1..Len(history) :
            /\ history[i].EmptyLayer
            /\ PosOf(history, ConstituentsOf(plan.steps[k])[1].CreatedBy) < i
            /\ i < PosOf(history, ConstituentsOf(plan.steps[k])[Len(plan.steps[k].Layers)].CreatedBy)
  /\ history[Len(history)].EmptyLayer

\* The number of entries of the first j layers of a step.
RECURSIVE EntriesBefore(_, _)
EntriesBefore(step, j) ==
  IF j = 0 THEN 0
  ELSE Len(tarLayers[step.Layers[j] + 1]) + EntriesBefore(step, j - 1)

\* C16: the tar stream of a merge step holds the entries of its layers,
\* every one with its content, in layer order and in their original order,
\* whiteouts and duplicate paths included, and nothing else.
C16_TarConcatenation ==
  mpc = "done" =>
    \A k \in 1..Len(plan.steps) :
      LET step == plan.steps[k]
          out == merged.Layers[k]
      IN ~step.Keep =>
           /\ Len(out) = EntriesBefore(step, Len(step.Layers))
           /\ \A j \in 1..Len(step.Layers) :
                \A e \in 1..Len(tarLayers[step.Layers[j] + 1]) :
                  out[EntriesBefore(step, j - 1) + e] = tarLayers[step.Layers[j] + 1][e]

\* C16 witness: a merge step over a layer with a file and a later layer
\* with the whiteout of that file and a path the first layer also holds.
C16_Witness ==
  /\ mpc = "done"
  /\ \E k \in 1..Len(plan.steps) :
       /\ IsMergeStep(plan.steps[k])
       /\ tarLayers[plan.steps[k].Layers[1] + 1] = TarPool[1]
       /\ tarLayers[plan.steps[k].Layers[2] + 1] = TarPool[2]
       /\ \E e \in 1..Len(merged.Layers[k]) : merged.Layers[k][e].Name \in WhiteoutNames

\* ---------------------------------------------- notions of the transfer claims
\* Some event before position i is operation op and went well.
DoneBefore(op, i) == \E j \in 1..(i - 1) : events[j].op = op /\ events[j].ok

\* C17: load is started, reading from save's stdout, before save is
\* started; load is awaited only after save has ended; and the transfer
\* returns success only after load started, save ended well and load ended
\* well, in that order.
C17_LoadBeforeSave ==
  /\ loadProc = "none" => saveProc = "none"
  /\ \A i \in 1..Len(events) :
       /\ events[i].op = "save.Start" =>
            \E j \in 1..(i - 1) :
              /\ events[j].op = "load.Start" /\ events[j].ok
              /\ events[j].stdin = "save.stdout"
       /\ events[i].op = "load.Wait" => DoneBefore("save.Exit", i)
  /\ (xfer # <<>> /\ tpc = "done" /\ ret.kind = "ok") =>
       \E i, j, k \in 1..Len(events) :
         /\ i < j /\ j < k
         /\ events[i].op = "load.Start" /\ events[i].ok
         /\ events[j].op = "save.Exit" /\ events[j].ok
         /\ events[k].op = "load.Wait" /\ events[k].ok

\* C17 witness: a transfer that returned success.
C17_Witness ==
  /\ entry = "TransferImage"
  /\ tpc = "done"
  /\ ret.kind = "ok"
  /\ Len(events) = 5

\* C18: the run engine is probed first and a hit ends the call; a miss
\* with one engine fails naming it; a miss with two engines probes the
\* build engine and fails naming both when the image is not there; the
\* transfer is called only after both probes, between different engines,
\* for an image of the build engine, from the build to the run engine.
C18_EnsureImage ==
  entry = "EnsureImage" =>
    /\ probes # <<>> => probes[1] = rt.RunEngine
    /\ events # <<>> => xfer # <<>>
    /\ (tpc = "done" /\ xfer = <<>>) =>
         /\ LocalImageExists(rt.RunEngine, imageRef) =>
              ret.kind = "ok" /\ probes = <<rt.RunEngine>>
         /\ (~LocalImageExists(rt.RunEngine, imageRef) /\ rt.BuildEngine = rt.RunEngine) =>
              ret = ErrorOf("not found", <<rt.RunEngine>>) /\ probes = <<rt.RunEngine>>
         /\ (~LocalImageExists(rt.RunEngine, imageRef) /\ rt.BuildEngine # rt.RunEngine) =>
              /\ ~LocalImageExists(rt.BuildEngine, imageRef)
              /\ ret = ErrorOf("not found", <<rt.RunEngine, rt.BuildEngine>>)
              /\ probes = <<rt.RunEngine, rt.BuildEngine>>
    /\ xfer # <<>> =>
         /\ probes = <<rt.RunEngine, rt.BuildEngine>>
         /\ rt.BuildEngine # rt.RunEngine
         /\ LocalImageExists(rt.BuildEngine, imageRef)
         /\ loadProc # "exit 0" => ~LocalImageExists(rt.RunEngine, imageRef)
         /\ xfer = [src |-> rt.BuildEngine, dst |-> rt.RunEngine, ref |-> imageRef]

\* C18 witness: a call that found the image in the build engine only and
\* transferred it.
C18_Witness ==
  /\ entry = "EnsureImage"
  /\ tpc = "done"
  /\ xfer # <<>>
  /\ ret.kind = "ok"

\* ------------------------------------------------- notions of the order claims
Before(seq, x, y) ==
  \E i, j \in 1..Len(seq) : i < j /\ seq[i] = x /\ seq[j] = y

\* Image n of the map installs a layer whose recipe needs the builder.
ConsumesBuilder(n, imgs) ==
  \E l \in InstalledBy(n, imgs, layers) : recipes[l] \cap BuilderKinds # {}

\* C19: the image order of the map returned by ComputeIntermediates is
\* there, holds every image once, every image after its internal base and
\* the builder before every image that needs it, and Generate writes the
\* build files and the bake targets in the order it resolved.
C19_ImageOrder ==
  /\ opc = "resolved" =>
       /\ imageOrder.ok
       /\ Len(imageOrder.order) = Cardinality(DOMAIN result)
       /\ SeqToSet(imageOrder.order) = DOMAIN result
       /\ \A n \in DOMAIN result :
            /\ result[n].Base \in DOMAIN result =>
                 Before(imageOrder.order, result[n].Base, n)
            /\ (n # builder /\ builder \in DOMAIN result /\ ConsumesBuilder(n, result)) =>
                 Before(imageOrder.order, builder, n)
  /\ opc = "generate" =>
       emitted = SubSeq(imageOrder.order, 1, Len(emitted))
  /\ opc = "done" =>
       /\ emitted = imageOrder.order
       /\ bake = imageOrder.order
       /\ [k \in DOMAIN targets |-> targets[k].name] = imageOrder.order

\* C20: with a layer table an image needs the builder exactly when a layer
\* it installs (own layers, their dependencies, layers of its base chain)
\* has a recipe that needs the builder; without a layer table it does.
C20_NeedsBuilder ==
  opc = "needs" =>
    \A n \in DOMAIN images :
      /\ needs[n].withLayers <=>
           \E l \in InstalledBy(n, images, layers) : recipes[l] \cap BuilderKinds # {}
      /\ needs[n].withNil

\* C20 witness: an image that needs the builder only for a layer of its
\* base, next to an image with root.yml layers only that does not.
C20_Witness ==
  /\ opc = "needs"
  /\ \E n \in DOMAIN images :
       /\ needs[n].withLayers
       /\ \A l \in DepClosure(SeqToSet(images[n].Layers), layers) :
            recipes[l] \cap BuilderKinds = {}
  /\ \E n \in DOMAIN images :
       /\ ~needs[n].withLayers
       /\ images[n].Layers # <<>>

\* ------------------------------------------------------------------ C21..C30
\* The ARG BASE_IMAGE directives of a build file.
BaseArgs(file) == SelectSeq(file, LAMBDA d : d.op = "ARG")

\* The base of image n names an image of the map.
InternalBase(n, imgs) == imgs[n].Base \in DOMAIN imgs

\* C21: every build file has one BASE_IMAGE reference, the raw base string
\* of an image on an external base and the FullTag of the base image of an
\* image on an internal base; a bake target depends on the base of its
\* image exactly when that base is internal.
C21_BaseReference ==
  /\ \A n \in DOMAIN files :
       /\ Len(BaseArgs(files[n])) = 1
       /\ BaseArgs(files[n])[1].arg =
            IF InternalBase(n, images)
            THEN FullTagOf(images[images[n].Base].Registry, images[n].Base,
                           images[images[n].Base].Tag)
            ELSE images[n].Base
  /\ \A k \in DOMAIN targets :
       targets[k].depends_on =
         IF InternalBase(targets[k].name, images)
         THEN <<images[targets[k].name].Base>> ELSE <<>>

\* C21 witness: Generate is through, with the file and the target of an
\* image on an external base and of an image on an internal base.
C21_Witness ==
  /\ opc = "done"
  /\ \E n, m \in DOMAIN files :
       /\ ~InternalBase(n, images)
       /\ InternalBase(m, images)
       /\ \E k \in DOMAIN targets : targets[k].name = n /\ targets[k].depends_on = <<>>
       /\ \E k \in DOMAIN targets : targets[k].name = m /\ targets[k].depends_on # <<>>

\* The layers of the scratch stages and of the layer steps of a build file,
\* in the order they are written.
StageLayers(file) ==
  LET st == SelectSeq(file, LAMBDA d : d.op = "FROM" /\ d.arg = "scratch"
                                        /\ d.layer # "supervisord-conf")
  IN [k \in 1..Len(st) |-> st[k].layer]

StepLayers(file) ==
  LET st == SelectSeq(file, LAMBDA d : d.op = "#" /\ d.arg = "Layer")
  IN [k \in 1..Len(st) |-> st[k].layer]

\* The own layers of image n with their dependencies, minus what its
\* internal base provides.
NotProvidedByBase(n, imgs, lys) ==
  DepClosure(SeqToSet(imgs[n].Layers), lys)
    \ (IF InternalBase(n, imgs) THEN InstalledBy(imgs[n].Base, imgs, lys) ELSE {})

\* C22: the scratch stages and the layer steps of every build file name the
\* same layers in the same order, each once: the image's own layers and
\* their dependencies that its base does not provide, in the order of the
\* popularity-weighted global order.
C22_EmittedLayers ==
  \A n \in DOMAIN files :
    /\ StageLayers(files[n]) = StepLayers(files[n])
    /\ NoDuplicates(StageLayers(files[n]))
    /\ SeqToSet(StageLayers(files[n])) = NotProvidedByBase(n, images, layers)
    /\ IsSubsequence(StageLayers(files[n]), GlobalLayerOrder(images, layers).order)

\* The positions of the global order strictly between two layers.
Between(x, y) ==
  {p \in 1..Len(globalOrder) : IndexOf(globalOrder, x) < p /\ p < IndexOf(globalOrder, y)}

\* C23 as stated: the layers of every absolute sequence occupy consecutive
\* positions of the global order.
C23_Contiguous ==
  Ordered =>
    \A n \in DOMAIN images :
      LET seq == AbsoluteLayerSequence(n, images, layers, globalOrder)
      IN \A i \in 1..(Len(seq) - 1) :
           IndexOf(globalOrder, seq[i]) + 1 = IndexOf(globalOrder, seq[i + 1])

\* C23 amended: the layers of every absolute sequence occupy increasing
\* positions of the global order, and a layer that stands between two
\* neighbours of the sequence, or before its first or after its last layer,
\* is a layer the image does not install.
C23_ContiguousButForeign ==
  Ordered =>
    \A n \in DOMAIN images :
      LET seq == AbsoluteLayerSequence(n, images, layers, globalOrder)
      IN /\ \A i \in 1..Len(seq) : seq[i] \in SeqToSet(globalOrder)
         /\ \A i \in 1..(Len(seq) - 1) :
              /\ IndexOf(globalOrder, seq[i]) < IndexOf(globalOrder, seq[i + 1])
              /\ \A p \in Between(seq[i], seq[i + 1]) :
                   globalOrder[p] \notin InstalledBy(n, images, layers)
         /\ \A p \in 1..Len(globalOrder) :
              (seq = <<>> \/ p < IndexOf(globalOrder, seq[1])
                 \/ p > IndexOf(globalOrder, seq[Len(seq)]))
                => globalOrder[p] \notin InstalledBy(n, images, layers)

\* C23 witness: two neighbours of an absolute sequence with a layer of
\* another image between them in the global order.
C23_Witness ==
  /\ pc = "done"
  /\ \E n, m \in DOMAIN images :
       LET seq == AbsoluteLayerSequence(n, images, layers, globalOrder)
       IN \E i \in 1..(Len(seq) - 1) : \E p \in Between(seq[i], seq[i + 1]) :
            /\ globalOrder[p] \in InstalledBy(m, images, layers)
            /\ globalOrder[p] \notin InstalledBy(n, images, layers)

\* C24: when ComputeIntermediates returns, every configured image provides
\* the layers it provided before: its own layers with their dependencies
\* and everything provided along its rewritten base chain make up the
\* element set of its absolute sequence.
C24_ProvidedPreserved ==
  pc = "done" =>
    \A n \in DOMAIN images :
      /\ InstalledBy(n, result, layers) = InstalledBy(n, images, layers)
      /\ InstalledBy(n, result, layers)
           = SeqToSet(AbsoluteLayerSequence(n, images, layers, globalOrder))

\* The events of the walk that created an auto-intermediate.
Created == {k \in DOMAIN walkLog : walkLog[k].kind \in {"fresh", "multi", "pure"}}

\* The branch points of the walk above the node of event e: the events of
\* its group whose path is a proper prefix of the path of e.
BranchesAbove(e) ==
  {k \in DOMAIN walkLog :
     /\ walkLog[k].group = e.group
     /\ walkLog[k].kind # "leaf"
     /\ Len(walkLog[k].path) < Len(e.path)
     /\ IsPrefix(walkLog[k].path, e.path)}

\* The collapsed chain that ends at the node of event e: the layers of its
\* path below the nearest branch point above it.
ChainOf(e) ==
  LET above == {Len(walkLog[k].path) : k \in BranchesAbove(e)}
      from == IF above = {} THEN 0 ELSE CHOOSE x \in above : \A y \in above : y <= x
  IN SubSeq(e.path, from + 1, Len(e.path))

\* What the parent of image n provides in the map res.
ParentProvides(n, res, lys) ==
  IF res[n].Base \in DOMAIN res THEN InstalledBy(res[n].Base, res, lys) ELSE {}

\* C25: when ComputeIntermediates returns, the own layers of every
\* auto-intermediate are the layers of its chain that its parent does not
\* provide with their dependencies that the parent does not provide, in
\* global order and each once; none of them is provided by the parent, and
\* the intermediate with its parent chain provides every layer of the trie
\* path from the root to its node.
C25_OwnLayers ==
  pc = "done" =>
    \A k \in Created :
      LET e == walkLog[k]
          provided == ParentProvides(e.name, result, layers)
          want == DepClosure(SeqToSet(ChainOf(e)) \ provided, layers) \ provided
      IN /\ result[e.name].Base = e.parent
         /\ result[e.name].Layers = FilterSeq(globalOrder, want)
         /\ NoDuplicates(result[e.name].Layers)
         /\ SeqToSet(result[e.name].Layers) \cap provided = {}
         /\ SeqToSet(e.path) \subseteq InstalledBy(e.name, result, layers)

\* The name x was taken when the intermediate of event k was created: an
\* input image or an intermediate created before has it.
TakenAt(k, x) ==
  \/ x \in DOMAIN images
  \/ \E j \in Created : j < k /\ walkLog[j].name = x

\* The suffixed candidate of a base name.
Suffixed(baseName, s) == baseName \o "-" \o ToString(s)

\* The name of event k follows the naming rule: the last layer of the chain
\* when that is free, else the candidate with the smallest free suffix.
NamedByRule(k) ==
  LET e == walkLog[k]
      baseName == e.path[Len(e.path)]
  IN \/ e.name = baseName /\ ~TakenAt(k, baseName)
     \/ \E s \in 2..(Cardinality(DOMAIN result) + 2) :
          /\ e.name = Suffixed(baseName, s)
          /\ TakenAt(k, baseName)
          /\ ~TakenAt(k, e.name)
          /\ \A t \in 2..(s - 1) : TakenAt(k, Suffixed(baseName, t))

\* C26: every auto-intermediate is named by the rule with a name that no
\* input image and no earlier intermediate has; the names of the
\* intermediates differ pairwise, each creation adds an entry to the
\* result and the entries of the input images stay theirs.
C26_FreshNames ==
  pc \in {"groups", "done"} =>
    /\ \A k \in Created :
         /\ NamedByRule(k)
         /\ walkLog[k].name \notin DOMAIN images
         /\ walkLog[k].name \in DOMAIN result
         /\ result[walkLog[k].name].Auto
    /\ \A j, k \in Created : j # k => walkLog[j].name # walkLog[k].name
    /\ \A n \in DOMAIN images : n \in DOMAIN result /\ ~result[n].Auto
    /\ Cardinality(DOMAIN result) = Cardinality(DOMAIN images) + Cardinality(Created)

\* C26 witness: an intermediate whose chain ends in a layer that an input
\* image is named after, and a later one whose chain ends in the same
\* layer, so that its search met the name of the first.
C26_Witness ==
  /\ pc = "done"
  /\ \E j, k \in Created :
       LET last == walkLog[j].path[Len(walkLog[j].path)]
       IN /\ j < k
          /\ last \in DOMAIN images
          /\ walkLog[k].path[Len(walkLog[k].path)] = last
          /\ \E s \in 2..(Cardinality(DOMAIN result) + 2) :
               /\ walkLog[j].name = Suffixed(last, s)
               /\ walkLog[k].name = Suffixed(last, s + 1)

\* The trie nodes of group key below the root.
TrieNodes(key) ==
  UNION {{SubSeq(AbsSeq(n), 1, k) : k \in 1..Len(AbsSeq(n))} : n \in baseGroups[key]}

\* The nodes with exactly one terminal image and at least one child.
PromotionNodes(key) ==
  {path \in TrieNodes(key) :
     Cardinality(EndAt(key, path)) = 1 /\ ChildLayers(key, path) # {}}

\* The events of the nodes directly below the node of event i: no other
\* branch point lies between.
DirectlyBelow(i) ==
  {j \in DOMAIN walkLog :
     /\ i \in BranchesAbove(walkLog[j])
     /\ \A k \in BranchesAbove(walkLog[j]) :
          Len(walkLog[k].path) <= Len(walkLog[i].path)}

\* C27: the walk never creates an auto-intermediate for a single terminal
\* image; at a node with exactly one terminal image and a child it makes
\* one stop, promotes the image, rewrites its base to the parent of the
\* walk and takes its name for the parent of the nodes below, so that
\* every image ending below the node has it on its base chain.
C27_Promotion ==
  pc = "done" =>
    /\ \A i \in DOMAIN walkLog : walkLog[i].kind # "fresh"
    /\ \A key \in WalkedGroups : \A path \in PromotionNodes(key) :
         LET x == CHOOSE n \in EndAt(key, path) : TRUE
         IN \E i \in DOMAIN walkLog :
              LET e == walkLog[i]
              IN /\ e.group = key /\ e.path = path
                 /\ \A j \in DOMAIN walkLog :
                      (walkLog[j].group = key /\ walkLog[j].path = path) => j = i
                 /\ e.kind = "reuse"
                 /\ e.name = x
                 /\ ~result[x].Auto
                 /\ result[x].Base = e.parent
                 /\ Cardinality({n \in DOMAIN result : result[n].Auto}) = Cardinality(Created)
                 /\ DirectlyBelow(i) # {}
                 /\ \A j \in DirectlyBelow(i) : walkLog[j].parent = x
                 /\ \A n \in EndBelow(key, path) : x \in BaseAncestors(n, result, {})

\* C27 witness: a promoted image that sat on another base before, with two
\* images ending below its node.
C27_Witness ==
  /\ pc = "done"
  /\ \E key \in WalkedGroups : \E path \in PromotionNodes(key) :
       \E x \in EndAt(key, path) :
         /\ result[x].Base # images[x].Base
         /\ Cardinality(EndBelow(key, path)) >= 2

\* Every trie node of a group is a stop of the walk at most once, and every
\* image is a terminal image of at most one stop.
HandledOnce ==
  \A i, j \in DOMAIN walkLog :
    i # j =>
      /\ ~(walkLog[i].group = walkLog[j].group /\ walkLog[i].path = walkLog[j].path)
      /\ SeqToSet(walkLog[i].images) \cap SeqToSet(walkLog[j].images) = {}

\* ComputeIntermediates has ended, with a result that holds every input
\* image or with an error.
Ended ==
  \/ pc = "done" /\ pending = {} /\ DOMAIN images \subseteq DOMAIN result
  \/ pc = "error"

\* C28: on inputs with acyclic layer and base graphs the walk handles every
\* trie node at most once and rewrites the base of every terminal image at
\* most once, and ComputeIntermediates ends, with a result or an error.
C28_Terminates == [](HandledOnce) /\ <>[](Ended)

\* C28 witness: the function has returned after a walk that collapsed a
\* chain of two layers or searched a name past a taken one.
C28_Witness ==
  /\ pc = "done"
  /\ \/ \E i \in DOMAIN walkLog : Len(ChainOf(walkLog[i])) >= 2
     \/ \E k \in Created : walkLog[k].name # walkLog[k].path[Len(walkLog[k].path)]

\* The events of the transfer with the given operation and outcome.
EventsOf(op, ok) == {k \in DOMAIN events : events[k].op = op /\ events[k].ok = ok}

\* C30: when TransferImage has returned and load was started, load.Wait
\* was called, also when save failed; and when load failed to start, save
\* was not started.
C30_LoadAwaited ==
  tpc = "done" =>
    /\ EventsOf("load.Start", TRUE) # {} =>
         \E k \in DOMAIN events : events[k].op = "load.Wait"
    /\ EventsOf("load.Start", FALSE) # {} =>
         \A k \in DOMAIN events : events[k].op # "save.Start"

\* The steps of a layer that need root, as the build file names them.
RootSteps == {"dnf install", "apt-get install", "root.yml"}

\* The user a build starts with: the final user of the build file of an
\* internal base, root on an external base image.
StartUser(n) ==
  IF InternalBase(n, images) /\ images[n].Base \in DOMAIN files
  THEN LET f == files[images[n].Base]
           us == SelectSeq(f, LAMBDA d : d.op = "USER")
       IN IF us = <<>> THEN "root" ELSE us[Len(us)].arg
  ELSE "root"

\* The effective user after the first k directives of the build file of n.
UserAfter(n, k) ==
  LET us == SelectSeq(SubSeq(files[n], 1, k), LAMBDA d : d.op = "USER")
  IN IF us = <<>> THEN StartUser(n) ELSE us[Len(us)].arg

\* C29: in every build file each root-level step of a layer runs as root,
\* each user-level step as the unprivileged user, every layer's steps end
\* with the effective user root, and the file ends with the effective user
\* user.
C29_EffectiveUser ==
  \A n \in DOMAIN files :
    /\ UserAfter(n, Len(files[n])) = "user"
    /\ \A k \in DOMAIN files[n] :
         LET d == files[n][k]
         IN /\ (d.op = "RUN" /\ d.arg \in RootSteps) => UserAfter(n, k - 1) = "root"
            /\ (d.op = "RUN" /\ d.arg \in SeqToSet(UserRecipes)) => UserAfter(n, k - 1) = "user"
            /\ (d.layer \in SeqToSet(StepLayers(files[n]))
                 /\ d.op \in {"#", "RUN", "USER"}
                 /\ files[n][k + 1].layer # d.layer)
                 => UserAfter(n, k) = "root"

====
